---- MODULE Spec2Model ----
(***************************************************************************)
(* Model of the logo-chat server core: the in-memory session/thread store  *)
(* (lib/store.ts), the branch operations (api/threads), the image         *)
(* normalizer (lib/image.ts), the generation client (lib/gemini.ts) and   *)
(* the POST /api/messages handler, one action per stretch of code between  *)
(* two awaits; and of the node graph of the Canvas component               *)
(* (components/Canvas.tsx).                                                *)
(***************************************************************************)
EXTENDS Integers, Sequences, FiniteSets, TLC

VARIABLES
    store,      \* Map<sessionId, SessionState>: session -> (thread id -> ThreadState)
    files,      \* public/outputs: locator -> bytes written there
    now,        \* the value Date.now() returns
    apiKey,     \* process.env.GOOGLE_API_KEY is set
    pc,         \* per POST request: the await it is suspended at
    req,        \* per POST request: the handler's local variables
    clonedFrom, \* history: the thread id a thread was cloned from
    ops,        \* history: the /api/threads and GET calls so far that changed the store
    client,     \* the scenario: how the clients issue their POST requests
    flows,      \* Canvas: the ids of the nodes of the flow list, in order
    active,     \* Canvas: the id of the active node
    edges,      \* Canvas: the edges, in order
    forks       \* Canvas: per createFlowFrom call, its sourceId and the await it is at

\* The state of the server, and the state of the Canvas component of one browser.
serverVars == <<store, files, now, apiKey, pc, req, clonedFrom, ops, client>>
canvasVars == <<flows, active, edges, forks>>
vars == <<store, files, now, apiKey, pc, req, clonedFrom, ops, client,
          flows, active, edges, forks>>

----------------------------------------------------------------------------
(* Bounds *)
NumReqs == 2      \* POST /api/messages requests in one behaviour
MaxNow == 1       \* Date.now() returns 0..MaxNow
MaxOps == 2       \* store-changing calls of /api/threads and GET /api/messages
MaxCandidates == 2  \* candidates in a generateContent response
MaxParts == 2     \* parts in one candidate's content
MaxImages == 2    \* elements of a response's top-level images array
MaxForks == 3     \* createFlowFrom calls of the Canvas in one behaviour

(* Program constants *)
TARGET_SIZE == 1024
maxAttempts == 40
pollDelayMs == 5000

Sessions == {"sA", "sB"}
Tids == {"default", "t1"}
Reqs == 1..NumReqs

----------------------------------------------------------------------------
(* Values *)
Undefined == "undefined"

NoImg == [width |-> 0, height |-> 0, format |-> "none", origin |-> <<"none", 0>>, crop |-> <<>>]
NoBuf == [mem |-> <<"none", 0>>, img |-> NoImg]
NoUrl == [sid |-> "", t |-> -1, ext |-> ""]

Urls == [sid : Sessions, t : 0..MaxNow, ext : {"png", "mp4"}]

\* An image as sharp sees it: metadata and the pixels' provenance.
\* format "bad" is a byte string sharp cannot decode; width/height -1 is
\* metadata without that field.
RawImage(w, h, f, o) == [width |-> w, height |-> h, format |-> f, origin |-> o, crop |-> <<>>]
Buf(m, i) == [mem |-> m, img |-> i]

Min(a, b) == IF a <= b THEN a ELSE b
Max(a, b) == IF a >= b THEN a ELSE b

----------------------------------------------------------------------------
(* lib/image.ts *)

\* A crop whose origin is rounded up.
CeilCropOf(width, height) ==
    LET size == Min(width, height)
    IN  [left |-> Max(0, (width - size + 1) \div 2),
         top  |-> Max(0, (height - size + 1) \div 2),
         size |-> size]

\* The extract() rectangle of enforcePng1024.
CropOf(width, height) ==
    LET size == Min(width, height)
    IN  [left |-> Max(0, (width - size) \div 2),
         top  |-> Max(0, (height - size) \div 2),
         size |-> size]

\* enforcePng1024(input): the promise's outcome. newMem is the storage of the
\* buffer toBuffer() allocates.
\* enforcePng1024 without the early return.
ReencodingEnforcePng1024(input, newMem) ==
    IF input.img.format = "bad"
    THEN [ok |-> FALSE, buf |-> NoBuf]
    ELSE LET width == IF input.img.width = -1 THEN TARGET_SIZE ELSE input.img.width
             height == IF input.img.height = -1 THEN TARGET_SIZE ELSE input.img.height
             c == CropOf(width, height)
         IN  [ok |-> TRUE,
              buf |-> Buf(newMem,
                          [width |-> TARGET_SIZE, height |-> TARGET_SIZE,
                           format |-> "png", origin |-> input.img.origin,
                           crop |-> <<c.left, c.top, c.size>>])]

enforcePng1024(input, newMem) ==
    IF input.img.format = "bad"
    THEN [ok |-> FALSE, buf |-> NoBuf]
    ELSE LET width == IF input.img.width = -1 THEN TARGET_SIZE ELSE input.img.width
             height == IF input.img.height = -1 THEN TARGET_SIZE ELSE input.img.height
         IN  IF width = TARGET_SIZE /\ height = TARGET_SIZE /\ input.img.format = "png"
             THEN [ok |-> TRUE, buf |-> input]
             ELSE LET c == CropOf(width, height)
                  IN  [ok |-> TRUE,
                       buf |-> Buf(newMem,
                                   [width |-> TARGET_SIZE, height |-> TARGET_SIZE,
                                    format |-> "png", origin |-> input.img.origin,
                                    crop |-> <<c.left, c.top, c.size>>])]

----------------------------------------------------------------------------
(* lib/store.ts *)

\* A ThreadState object. Absent stands for "no entry under this thread id".
EmptyThread == [messages |-> <<>>, lastImage |-> NoBuf, lastImageMime |-> Undefined]
Absent == [messages |-> <<>>, lastImage |-> NoBuf, lastImageMime |-> "absent"]
\* store.get(sessionId) is undefined
NoSession == [t \in Tids |-> [Absent EXCEPT !.lastImageMime = "no session"]]

\* id is the suffix of the message id; its Date.now() prefix and the
\* timestamp field, which no server code reads, are left out. req is a
\* history field: the request whose handler built the message (0: cloneThread).
ChatMessage(id, role, text, imageUrl, videoUrl, r) ==
    [id |-> id, role |-> role, text |-> text, imageUrl |-> imageUrl,
     videoUrl |-> videoUrl, req |-> r]

\* The store functions take the session map and return the map after the call.
getSession(st, s) ==
    IF st[s] = NoSession THEN [st EXCEPT ![s] = [t \in Tids |-> Absent]] ELSE st

\* A getThread that registers a fresh object on every call.
RecreatingGetThread(st, s, t) ==
    [getSession(st, s) EXCEPT ![s][t] = EmptyThread]

getThread(st, s, t) ==
    LET st1 == getSession(st, s)
    IN  IF st1[s][t] = Absent THEN [st1 EXCEPT ![s][t] = EmptyThread] ELSE st1

\* setLastImage keeping the MIME type the thread had.
BytesOnlySetLastImage(st, s, t, buf, mime) ==
    [st EXCEPT ![s] = [x \in Tids |->
        IF x = t
        THEN [messages |-> st[s][x].messages, lastImage |-> buf,
              lastImageMime |-> IF st[s][x].lastImageMime \in {"absent", "no session"}
                                THEN Undefined ELSE st[s][x].lastImageMime]
        ELSE IF st[s][x].lastImageMime = "no session"
        THEN [st[s][x] EXCEPT !.lastImageMime = "absent"]
        ELSE st[s][x]]]

\* setLastImage that starts the thread's log anew.
LogClearingSetLastImage(st, s, t, buf, mime) ==
    [getThread(st, s, t) EXCEPT ![s][t] = [messages |-> <<>>, lastImage |-> buf,
                                           lastImageMime |-> mime]]

\* setLastImage that keeps the image a thread already has.
FirstWinsSetLastImage(st, s, t, buf, mime) ==
    LET st1 == getThread(st, s, t)
    IN  IF st1[s][t].lastImage # NoBuf THEN st1
        ELSE [st1 EXCEPT ![s][t].lastImage = buf, ![s][t].lastImageMime = mime]

setLastImage(st, s, t, buf, mime) ==
    [getThread(st, s, t) EXCEPT ![s][t].lastImage = buf, ![s][t].lastImageMime = mime]

\* addMessage on a store keyed by thread id alone.
BroadcastAddMessage(st, s, t, msg) ==
    [x \in DOMAIN st |-> [getThread(st, x, t) EXCEPT ![x][t].messages = Append(@, msg)][x]]

\* addMessage that falls back on the default thread id.
DefaultAddMessage(st, s, t, msg) ==
    [st EXCEPT ![s] = [x \in Tids |->
        IF x = "default"
        THEN [(IF st[s][x].lastImageMime \in {"absent", "no session"}
               THEN [messages |-> <<>>, lastImage |-> NoBuf, lastImageMime |-> Undefined]
               ELSE st[s][x]) EXCEPT !.messages = Append(@, msg)]
        ELSE IF st[s][x].lastImageMime = "no session"
        THEN [st[s][x] EXCEPT !.lastImageMime = "absent"]
        ELSE st[s][x]]]

addMessage(st, s, t, msg) ==
    [getThread(st, s, t) EXCEPT ![s][t].messages = Append(@, msg)]

getMessages(st, s, t) == getThread(st, s, t)

\* The filter of cloneThread looking at imageUrl only.
ImageOnlyHasArtifactRef(m) == m.imageUrl # NoUrl

HasArtifactRef(m) == m.imageUrl # NoUrl \/ m.videoUrl # NoUrl

\* Buffer.prototype.slice(): a new Buffer object over the same memory.
BufferSlice(buf) == buf

\* A clone that takes the log and leaves the image behind.
LogOnlyClonedThreadState(source) ==
    [messages |-> source.messages, lastImage |-> NoBuf, lastImageMime |-> Undefined]

\* A clone whose inherited message takes the latest image reference and the
\* latest video reference of the source.
MergingClonedThreadState(source) ==
    LET withImage == SelectSeq(source.messages, LAMBDA m : m.imageUrl # NoUrl)
        withVideo == SelectSeq(source.messages, LAMBDA m : m.videoUrl # NoUrl)
        cloned == [messages |-> source.messages,
                   lastImage |-> IF source.lastImage # NoBuf
                                 THEN BufferSlice(source.lastImage) ELSE NoBuf,
                   lastImageMime |-> source.lastImageMime]
    IN  IF withImage # <<>> \/ withVideo # <<>>
        THEN [cloned EXCEPT !.messages =
                 Append(@, ChatMessage("inherited", "assistant",
                                       "Inherited from parent node",
                                       IF withImage # <<>>
                                       THEN withImage[Len(withImage)].imageUrl ELSE NoUrl,
                                       IF withVideo # <<>>
                                       THEN withVideo[Len(withVideo)].videoUrl ELSE NoUrl, 0))]
        ELSE cloned

clonedThreadState(source) ==
    LET withRef == SelectSeq(source.messages, HasArtifactRef)
        cloned == [messages |-> source.messages,
                   lastImage |-> IF source.lastImage # NoBuf
                                 THEN BufferSlice(source.lastImage) ELSE NoBuf,
                   lastImageMime |-> source.lastImageMime]
    IN  IF withRef # <<>>
        THEN LET latestImageMessage == withRef[Len(withRef)]
                 inheritedMessage ==
                     ChatMessage("inherited", "assistant",
                                 "Inherited from parent node",
                                 latestImageMessage.imageUrl,
                                 latestImageMessage.videoUrl, 0)
             IN  [cloned EXCEPT !.messages = Append(@, inheritedMessage)]
        ELSE cloned

cloneThread(st, s, sourceThread, id) ==
    LET st1 == getThread(st, s, sourceThread)
    IN  [getSession(st1, s) EXCEPT ![s][id] = clonedThreadState(st1[s][sourceThread])]

createThread(st, s, id) ==
    LET st1 == getSession(st, s)
    IN  IF st1[s][id] = Absent THEN [st1 EXCEPT ![s][id] = EmptyThread] ELSE st1

\* deleteThread clearing the session's map.
ClearingDeleteThread(st, s, id) ==
    [st |-> [st EXCEPT ![s] = [t \in Tids |->
                [messages |-> <<>>, lastImage |-> NoBuf, lastImageMime |-> "absent"]]],
     ok |-> TRUE]

\* deleteThread answering true whatever the map held.
AlwaysOkDeleteThread(st, s, id) ==
    [st |-> [getSession(st, s) EXCEPT ![s][id] = Absent], ok |-> TRUE]

\* deleteThread: the map after the call and the value returned.
deleteThread(st, s, id) ==
    LET st1 == getSession(st, s)
    IN  [st |-> [st1 EXCEPT ![s][id] = Absent], ok |-> st1[s][id] # Absent]

----------------------------------------------------------------------------
(* lib/gemini.ts: the system prompts *)

VIDEO_SYSTEM_PROMPT == "VIDEO_SYSTEM_PROMPT"
TemplateIds == {"logo", "general", "artistic", "product", "portrait", "landscape"}
\* PROMPT_TEMPLATES[id].prompt
TemplatePrompt(id) == "PROMPT_TEMPLATES." \o id \o ".prompt"

\* Property names every object literal inherits from Object.prototype.
InheritedKeys == {"constructor", "toString", "__proto__"}

\* PROMPT_TEMPLATES[key]: a template for an own key, the inherited member
\* (a function or object, truthy, without a prompt member) for an inherited
\* one, undefined for any other key.
TemplateLookup(key) ==
    IF key \in TemplateIds THEN [truthy |-> TRUE, prompt |-> TemplatePrompt(key)]
    ELSE IF key \in InheritedKeys THEN [truthy |-> TRUE, prompt |-> Undefined]
    ELSE [truthy |-> FALSE, prompt |-> Undefined]

getSystemPrompt(modelId, templateId) ==
    IF modelId = "veo-3.0-generate-preview" THEN VIDEO_SYSTEM_PROMPT
    ELSE IF templateId # Undefined /\ templateId # "" /\ TemplateLookup(templateId).truthy
         THEN TemplateLookup(templateId).prompt
         ELSE TemplatePrompt("logo")

\* components/Canvas.tsx: the model ids the selector offers, and the one it
\* labels "Veo 3 Video Generation"
UiModelOptions == {"gemini-2.5-flash-image-preview", "veo-3.0-generate-preview", "gpt-5"}
UiVideoModel == "veo-3.0-generate-preview"

\* lib/gemini.ts: the model of the image call.
GEMINI_IMAGE_MODEL == "gemini-2.5-flash-image-preview"

\* The characters of the model ids the model uses (of the long ids, the
\* leading ones: the rest holds no "g").
CharsOf(id) ==
    CASE id = "gemini-2.5-flash-image-preview" -> <<"g", "e", "m", "i", "n", "i", "-", "2", ".", "5">>
      [] id = "Gemini-Pro-Vision" -> <<"G", "e", "m", "i", "n", "i", "-", "P", "r", "o">>
      [] id = "models/GEMINI" -> <<"m", "o", "d", "e", "l", "s", "/", "G", "E", "M", "I", "N", "I">>
      [] id = "gemin-i" -> <<"g", "e", "m", "i", "n", "-", "i">>
      [] id = "gpt-5" -> <<"g", "p", "t", "-", "5">>
      [] id = "veo-3" -> <<"v", "e", "o", "-", "3">>
      [] id = "veo-3.0-generate-preview" -> <<"v", "e", "o", "-", "3", ".", "0", "-", "g", "e", "n">>
      [] OTHER -> <<>>

ToLower(c) ==
    CASE c = "G" -> "g" [] c = "E" -> "e" [] c = "M" -> "m" [] c = "I" -> "i"
      [] c = "N" -> "n" [] c = "P" -> "p" [] OTHER -> c

\* /gemini/.test(modelId): the match is case-sensitive.
CaseSensitiveTest(chars) ==
    LET pat == <<"g", "e", "m", "i", "n", "i">>
    IN  \E i \in 1..(Len(chars) - Len(pat) + 1) :
            \A j \in 1..Len(pat) : chars[i + j - 1] = pat[j]

\* /gemini/i.test(modelId)
TestGemini(chars) ==
    LET pat == <<"g", "e", "m", "i", "n", "i">>
    IN  \E i \in 1..(Len(chars) - Len(pat) + 1) :
            \A j \in 1..Len(pat) : ToLower(chars[i + j - 1]) = pat[j]

\* const model = (modelId && /gemini/i.test(modelId) ? modelId : GEMINI_IMAGE_MODEL)
\*               || GEMINI_IMAGE_MODEL
selectImageModel(modelId) ==
    LET chosen == IF modelId # Undefined /\ modelId # "" /\ TestGemini(CharsOf(modelId))
                  THEN modelId ELSE GEMINI_IMAGE_MODEL
    IN  IF chosen # "" THEN chosen ELSE GEMINI_IMAGE_MODEL

----------------------------------------------------------------------------
(* The request inputs and the collaborators' answers *)

Prompts == {"", "draw a cat logo"}
ModelIds == {Undefined, "veo-3", "veo-3.0-generate-preview"}
\* Further model ids a client can send: the selector's other options and
\* ids with the name in other case or position.
MoreModelIds == {"gemini-2.5-flash-image-preview", "gpt-5", "Gemini-Pro-Vision",
                 "models/GEMINI", "gemin-i"}
ThemeNames == {Undefined, "sunset.jpg", "broken.png"}

\* public/themes: the files there, NoImg for a name with no file.
ThemeFile(name) ==
    CASE name = "sunset.jpg" -> RawImage(800, 600, "jpeg", <<"theme", 0>>)
      [] name = "broken.png" -> RawImage(0, 0, "bad", <<"theme", 0>>)
      [] OTHER -> NoImg

\* The files a client uploads with request r (NoBuf: no file part).
Uploads(r) == {NoBuf,
               Buf(<<"upload", r>>, RawImage(1024, 1024, "png", <<"upload", r>>)),
               Buf(<<"upload", r>>, RawImage(0, 0, "bad", <<"upload", r>>))}

\* Widths, heights and formats of further uploads.
Dims == {1, 2, 1024, 1025, 1500, 2000}
Formats == {"png", "jpeg"}
MoreUploads(r) ==
    {Buf(<<"upload", r>>, RawImage(w, h, f, <<"upload", r>>)) :
         w \in Dims, h \in Dims, f \in Formats}

\* The image payloads the model returns to request r.
GeneratedImages(r) == {RawImage(2000, 1500, "png", <<"gen", r>>),
                       RawImage(0, 0, "bad", <<"gen", r>>)}

\* The base64 strings a response can carry, and Buffer.from(data, "base64"):
\* one string encodes a 2000x1500 PNG, the other bytes that are no image.
Payloads == {"png2000x1500", "garbage"}
Base64Decode(data, r) ==
    IF data = "png2000x1500" THEN RawImage(2000, 1500, "png", <<"gen", r>>)
    ELSE RawImage(0, 0, "bad", <<"gen", r>>)

\* A part of candidate.content.parts: its inline_data/inlineData/file_data/
\* fileData member (data = Undefined: no string "data" member, mime =
\* Undefined: no declared type) and its text member.
NoInline == [present |-> FALSE, data |-> Undefined, mime |-> Undefined]
NoText == [kind |-> "none", mime |-> Undefined, data |-> Undefined]
InlinePart(data, mime) ==
    [inline |-> [present |-> TRUE, data |-> data, mime |-> mime], text |-> NoText]
\* kind "uri": "data:<mime>;base64,<data>"; kind "malformed": starts with
\* "data:image/" but does not match the pattern; kind "plain": other text.
TextPart(kind, mime, data) ==
    [inline |-> NoInline, text |-> [kind |-> kind, mime |-> mime, data |-> data]]

Parts == {InlinePart("png2000x1500", "image/jpeg"),
          InlinePart("garbage", Undefined),
          InlinePart(Undefined, "image/png"),
          TextPart("plain", Undefined, Undefined),
          TextPart("malformed", Undefined, Undefined),
          TextPart("uri", "image/webp", "png2000x1500")}

\* An element of the top-level images array.
ImageElements == {[data |-> "png2000x1500", mime |-> Undefined],
                  [data |-> Undefined, mime |-> "image/gif"]}

BoundedSeq(S, n) == UNION {[1..k -> S] : k \in 0..n}

\* The JSON bodies of a successful generateContent call.
AllImageResponses ==
    [candidates : BoundedSeq(BoundedSeq(Parts, MaxParts), MaxCandidates),
     images : BoundedSeq(ImageElements, MaxImages)]

\* The bodies a scenario draws from: every body in the scenario "parse",
\* else one inline PNG, one inline undecodable payload, or no payload.
ImageResponses(c) ==
    IF c = "parse" THEN AllImageResponses
    ELSE {[candidates |-> <<ps>>, images |-> <<>>] :
              ps \in {<<InlinePart("png2000x1500", "image/jpeg")>>,
                       <<InlinePart("garbage", Undefined)>>,
                       <<TextPart("plain", Undefined, Undefined)>>}}

\* The variable json before res.json() has resolved.
NoJson == [candidates |-> <<>>, images |-> <<>>]

NotFound == [found |-> FALSE, data |-> Undefined, mimeType |-> Undefined]

\* The body of the loop over parts: the inline member first, then the text.
parsePart(p) ==
    IF p.inline.present /\ p.inline.data # Undefined
    THEN [found |-> TRUE, data |-> p.inline.data,
          mimeType |-> IF p.inline.mime # Undefined THEN p.inline.mime ELSE "image/png"]
    ELSE IF p.text.kind \in {"uri", "malformed"} /\ p.text.kind = "uri"
         THEN [found |-> TRUE, data |-> p.text.data, mimeType |-> p.text.mime]
         ELSE NotFound

RECURSIVE scanParts(_, _)
scanParts(parts, i) ==
    IF i > Len(parts) THEN NotFound
    ELSE IF parsePart(parts[i]).found THEN parsePart(parts[i])
         ELSE scanParts(parts, i + 1)

RECURSIVE scanCandidates(_, _)
scanCandidates(candidates, i) ==
    IF i > Len(candidates) THEN NotFound
    ELSE IF scanParts(candidates[i], 1).found THEN scanParts(candidates[i], 1)
         ELSE scanCandidates(candidates, i + 1)

\* images[0] only
parseImages(images) ==
    IF Len(images) > 0 /\ images[1].data # Undefined
    THEN [found |-> TRUE, data |-> images[1].data,
          mimeType |-> IF images[1].mime # Undefined THEN images[1].mime ELSE "image/png"]
    ELSE NotFound

\* generateOrEditImage after res.json(): the payload returned, or none (throw)
parseImageResponse(json) ==
    IF scanCandidates(json.candidates, 1).found
    THEN scanCandidates(json.candidates, 1)
    ELSE parseImages(json.images)

NoBase == [data |-> NoBuf, mimeType |-> ""]

\* The handler's reference to a ThreadState object. The object stays the one
\* registered under the handler's (sid, threadId) until deleteThread or
\* cloneThread takes it out of the map; from then on nothing writes to it, and
\* the reference is modelled by the value the object had at that moment.
NoRef == [bound |-> FALSE, detached |-> FALSE, val |-> Absent]
LiveRef == [bound |-> TRUE, detached |-> FALSE, val |-> Absent]
DetachedRef(v) == [bound |-> TRUE, detached |-> TRUE, val |-> v]

IdleReq == [sid |-> "", threadId |-> "", prompt |-> "", uploadBuffer |-> NoBuf,
            themeName |-> Undefined, modelId |-> Undefined, threadState |-> NoRef,
            normalizedUpload |-> NoBuf, themeBuffer |-> NoBuf, baseImage |-> NoBase,
            attempt |-> 0, waited |-> 0, image |-> NoBuf, png |-> NoBuf, video |-> NoBuf,
            isVideoModel |-> FALSE, model |-> Undefined, json |-> NoJson, filename |-> NoUrl, status |-> 0]

----------------------------------------------------------------------------
(* State *)

\* The createFlowFrom calls of a behaviour, and the local state of one that
\* has not been made.
Forks == 1..MaxForks
IdleFork == [sourceId |-> "", pc |-> "idle"]

\* The sessions of a behaviour are the domain of store.
InitWith(sessions) ==
    /\ store = [s \in sessions |-> NoSession]
    /\ files = [u \in Urls |-> NoImg]
    /\ now = 0
    /\ apiKey \in BOOLEAN
    /\ pc = [r \in Reqs |-> "idle"]
    /\ req = [r \in Reqs |-> IdleReq]
    /\ clonedFrom = [s \in sessions |-> [t \in Tids |-> ""]]
    /\ ops = 0
    /\ flows = <<"default">>
    /\ active = "default"
    /\ edges = <<>>
    /\ forks = [k \in Forks |-> IdleFork]

\* Five scenarios. "serial": a client that awaits each response before its
\* next call, with every kind of request. "branching": one POST of any kind,
\* with /api/threads and GET calls arriving at any moment of it. "overlap":
\* POSTs that overlap in any way, carrying a prompt, a thread and a model
\* only, and no other call. "slow": one POST of any kind and no other call,
\* where a video operation may stay pending for any number of polls (in the
\* other three the operation has ended by the first poll).
\* "parse": one POST of any kind, with any model id, and no other call, the
\* image response being any body of AllImageResponses.
Scenarios == {"serial", "branching", "overlap", "slow", "parse"}

Init == InitWith({"sA"}) /\ client \in Scenarios

\* The thread registered under (s, t); Absent when there is none.
ThreadAt(st, s, t) == IF st[s] = NoSession THEN Absent ELSE st[s][t]

\* The handlers whose threadState is the object registered under (s, id) keep
\* that object when the map entry is removed or replaced.
Detach(rq, s, id) ==
    [r \in Reqs |->
        IF rq[r].threadState = LiveRef /\ rq[r].sid = s /\ rq[r].threadId = id
        THEN [rq[r] EXCEPT !.threadState = DetachedRef(ThreadAt(store, s, id))]
        ELSE rq[r]]

----------------------------------------------------------------------------
(* The clock *)
\* Date.now(): a value not before the one it returned last. The reads that
\* matter are those of the file names (route.ts 148, 177).
DateNow(t) == t \in now..MaxNow /\ now' = t

----------------------------------------------------------------------------
(* api/threads/route.ts and GET api/messages *)

\* Only the calls that change the store are counted.
Called(s) ==
    /\ client \in {"serial", "branching", "sessions"}
    /\ client = "sessions" => s = "sA" /\ pc[1] = "done"
    /\ client \in {"serial", "sessions"} => \A q \in Reqs : pc[q] \in {"idle", "done"}
    /\ IF store' = store THEN ops' = ops ELSE ops < MaxOps /\ ops' = ops + 1

\* POST /api/threads without sourceThread; id is the id createThread uses
CreateThread(s, id) ==
    /\ store' = createThread(store, s, id)
    /\ Called(s)
    /\ UNCHANGED <<files, now, apiKey, pc, req, clonedFrom, client, canvasVars>>

\* POST /api/threads with sourceThread; id is the id cloneThread registers
\* the clone under (newThreadId, or the id it generates).
CloneThread(s, source, id) ==
    /\ store' = cloneThread(store, s, source, id)
    /\ Called(s)
    /\ req' = Detach(req, s, id)
    /\ clonedFrom' = [clonedFrom EXCEPT ![s][id] = IF source = id THEN "" ELSE source]
    /\ UNCHANGED <<files, now, apiKey, pc, client, canvasVars>>

\* DELETE /api/threads
DeleteThread(s, id) ==
    /\ store' = deleteThread(store, s, id).st
    /\ Called(s)
    /\ req' = Detach(req, s, id)
    /\ clonedFrom' = [clonedFrom EXCEPT ![s][id] = ""]
    /\ UNCHANGED <<files, now, apiKey, pc, client, canvasVars>>

\* GET /api/messages
GetMessages(s, t) ==
    /\ store' = getMessages(store, s, t)
    /\ Called(s)
    /\ UNCHANGED <<files, now, apiKey, pc, req, clonedFrom, client, canvasVars>>

----------------------------------------------------------------------------
(* POST api/messages/route.ts *)

\* ResolveBase with the first two tests exchanged.
ThemeFirstResolveBase(normalizedUpload, themeBuffer, threadState) ==
    IF themeBuffer # NoBuf
    THEN [data |-> themeBuffer, mimeType |-> "image/png"]
    ELSE IF normalizedUpload # NoBuf
    THEN [data |-> normalizedUpload, mimeType |-> "image/png"]
    ELSE IF threadState.lastImage # NoBuf
    THEN [data |-> threadState.lastImage, mimeType |-> "image/png"]
    ELSE [data |-> NoBuf, mimeType |-> ""]

\* route.ts 116-123: precedence upload > theme > lastImage
ResolveBase(normalizedUpload, themeBuffer, threadState) ==
    IF normalizedUpload # NoBuf
    THEN [data |-> normalizedUpload, mimeType |-> "image/png"]
    ELSE IF themeBuffer # NoBuf
    THEN [data |-> themeBuffer, mimeType |-> "image/png"]
    ELSE IF threadState.lastImage # NoBuf
    THEN [data |-> threadState.lastImage,
          mimeType |-> IF threadState.lastImageMime # Undefined
                       THEN threadState.lastImageMime ELSE "image/png"]
    ELSE NoBase

isVideoModel(modelId) == modelId = "veo-3"

\* What is left of a handler's frame once it has returned its response. (A
\* local variable is reset to its initial value by the step that reads it
\* last, so that two handlers that can no longer behave differently are in
\* the same state.)
Returned(rq, status) ==
    [IdleReq EXCEPT !.sid = rq.sid, !.threadId = rq.threadId, !.status = status]

Step(r, st, rq, stage) ==
    /\ store' = st
    /\ req' = [req EXCEPT ![r] = rq]
    /\ pc' = [pc EXCEPT ![r] = stage]

\* A catch block that reports the failure to the caller only.
SilentCatch(r, msg) ==
    /\ store' = store
    /\ req' = [req EXCEPT ![r] = [status |-> 500] @@ req[r]]
    /\ pc' = [pc EXCEPT ![r] = "done"]

\* route.ts 195-205: the catch block
Catch(r, msg) ==
    LET text == "Error: " \o msg
        assistantMsg == ChatMessage("a-err", "assistant", text, NoUrl, NoUrl, r)
    IN  Step(r, addMessage(store, req[r].sid, req[r].threadId, assistantMsg),
             Returned(req[r], 500), "done")

\* route.ts 116-143 / 164-169: the base is resolved and the generation call
\* is issued in the stretch of code that reaches the call.
EnterGenerate(r, st, rq) ==
    LET ts == IF rq.threadState.detached THEN rq.threadState.val
              ELSE st[rq.sid][rq.threadId]
    IN  Step(r, st,
             [rq EXCEPT !.baseImage = ResolveBase(rq.normalizedUpload, rq.themeBuffer, ts),
                        !.isVideoModel = isVideoModel(rq.modelId),
                        !.model = IF isVideoModel(rq.modelId) THEN Undefined
                                  ELSE selectImageModel(rq.modelId),
                        !.normalizedUpload = NoBuf, !.themeBuffer = NoBuf,
                        !.threadState = NoRef],
             "generate")

\* The requests a client of scenario c may send as request r: what the
\* handler has parsed at route.ts 21-70.
Posts(c, r, sessions) ==
    LET all == [sid : sessions, threadId : Tids, prompt : Prompts,
                uploadBuffer : IF c = "upload" THEN Uploads(r) \cup MoreUploads(r)
                               ELSE Uploads(r),
                themeName : ThemeNames,
                modelId : IF c = "parse" THEN ModelIds \cup MoreModelIds ELSE ModelIds]
    IN  {p \in all :
            /\ c = "overlap" => p.uploadBuffer = NoBuf /\ p.themeName = Undefined
            /\ c \in {"branching", "slow", "parse", "upload"} => r = 1
            /\ p.prompt = "" =>
                  p.uploadBuffer = NoBuf /\ p.themeName = Undefined /\ p.modelId = Undefined}

\* The body of a POST: one that formData()/json() reads, or one that makes
\* them throw.
Bodies == {"readable", "unparseable"}

\* A rejection that registers the thread named by the request.
ThreadCreatingReject(r, p) ==
    Step(r, getThread(store, p.sid, p.threadId),
         Returned([IdleReq EXCEPT !.sid = p.sid, !.threadId = p.threadId], 400), "done")

\* route.ts 67-74: the 400 answers of the catch block and of the prompt test
Reject(r, p) ==
    Step(r, store,
         Returned([IdleReq EXCEPT !.sid = p.sid, !.threadId = p.threadId], 400), "done")

\* route.ts 72-96: validate, record the user message, take the thread
PostStart(r) ==
    /\ pc[r] = "idle"
    /\ \A q \in Reqs : q < r => pc[q] # "idle"
    /\ client \in {"serial", "sessions"} => \A q \in Reqs : pc[q] \in {"idle", "done"}
    /\ \E body \in Bodies, p \in Posts(client, r, DOMAIN store) :
        /\ client = "sessions" => p.sid = (IF r = 1 THEN "sB" ELSE "sA")
        /\ body = "unparseable" => p.prompt = ""
        /\ IF body = "unparseable" \/ p.prompt = ""
           THEN Reject(r, p)
           ELSE LET userMsg == ChatMessage("u", "user", p.prompt, NoUrl, NoUrl, r)
                    st == getThread(addMessage(store, p.sid, p.threadId, userMsg),
                                    p.sid, p.threadId)
                    rq == [IdleReq EXCEPT !.sid = p.sid, !.threadId = p.threadId,
                                          !.prompt = p.prompt,
                                          !.uploadBuffer = p.uploadBuffer,
                                          !.themeName = p.themeName,
                                          !.modelId = p.modelId, !.threadState = LiveRef]
                IN  IF p.uploadBuffer # NoBuf THEN Step(r, st, rq, "upload")
                    ELSE IF p.themeName # Undefined THEN Step(r, st, rq, "theme")
                    ELSE EnterGenerate(r, st, rq)
    /\ UNCHANGED <<files, now, apiKey, clonedFrom, ops, client, canvasVars>>

\* route.ts 96: await enforcePng1024(uploadBuffer), outside the try block
UploadNormalized(r) ==
    /\ pc[r] = "upload"
    /\ LET e == enforcePng1024(req[r].uploadBuffer, <<"nupload", r>>)
           rq == [req[r] EXCEPT !.normalizedUpload = e.buf, !.uploadBuffer = NoBuf]
       IN  IF ~e.ok
           THEN Step(r, store, Returned(req[r], 500), "done")
           ELSE IF rq.themeName # Undefined THEN Step(r, store, rq, "theme")
           ELSE EnterGenerate(r, store, rq)
    /\ UNCHANGED <<files, now, apiKey, clonedFrom, ops, client, canvasVars>>

\* route.ts 98-114: stat, readFile and normalize the theme; any failure is ignored
LoadTheme(themeName, r) ==
    LET file == ThemeFile(themeName)
        e == enforcePng1024(Buf(<<"theme", r>>, file), <<"ntheme", r>>)
    IN  IF file = NoImg THEN NoBuf
        ELSE IF e.ok THEN e.buf ELSE NoBuf

\* A theme step that lets the failure reach the catch block.
ThrowingThemeLoaded(r) ==
    /\ pc[r] = "theme"
    /\ IF LoadTheme(req[r].themeName, r) = NoBuf
       THEN Catch(r, "ENOENT: no such file or directory")
       ELSE EnterGenerate(r, store,
                          [req[r] EXCEPT !.themeBuffer = LoadTheme(req[r].themeName, r)])
    /\ UNCHANGED <<files, now, apiKey, clonedFrom, ops, client, canvasVars>>

ThemeLoaded(r) ==
    /\ pc[r] = "theme"
    /\ EnterGenerate(r, store,
                     [req[r] EXCEPT !.themeBuffer = LoadTheme(req[r].themeName, r)])
    /\ UNCHANGED <<files, now, apiKey, clonedFrom, ops, client, canvasVars>>

\* lib/gemini.ts generateOrEditImage, as awaited at route.ts 164
\* generateOrEditImage up to "await res.json()": the key is missing, the
\* upstream call fails, or it answers 200 with a body
GenerateImageReturns(r) ==
    /\ pc[r] = "generate"
    /\ ~req[r].isVideoModel
    /\ IF ~apiKey
       THEN Catch(r, "Missing GOOGLE_API_KEY in environment")
       ELSE \/ Catch(r, "Gemini API error")
            \/ \E json \in ImageResponses(client) :
                 Step(r, store,
                      [req[r] EXCEPT !.json = json, !.model = Undefined,
                                     !.baseImage = NoBase, !.modelId = Undefined,
                                     !.themeName = Undefined],
                      "parse")
    /\ UNCHANGED <<files, now, apiKey, clonedFrom, ops, client, canvasVars>>

\* generateOrEditImage from res.json() to its return or throw
ParseResponse(r) ==
    /\ pc[r] = "parse"
    /\ LET out == parseImageResponse(req[r].json)
       IN  IF out.found
           THEN Step(r, store,
                     [req[r] EXCEPT !.image = Buf(<<"gen", r>>, Base64Decode(out.data, r)),
                                    !.json = NoJson],
                     "normalize")
           ELSE Catch(r, "Gemini did not return an image payload")
    /\ UNCHANGED <<files, now, apiKey, clonedFrom, ops, client, canvasVars>>

\* route.ts 172: await enforcePng1024(image)
NormalizeDone(r) ==
    /\ pc[r] = "normalize"
    /\ LET e == enforcePng1024(req[r].image, <<"png", r>>)
       IN  IF e.ok
           THEN Step(r, store, [req[r] EXCEPT !.png = e.buf, !.image = NoBuf], "mkdir")
           ELSE Catch(r, "Input buffer contains unsupported image format")
    /\ UNCHANGED <<files, now, apiKey, clonedFrom, ops, client, canvasVars>>

\* generateVideo without the assertEnv() call.
UncheckedVideoStart(r) ==
    /\ pc[r] = "generate"
    /\ req[r].isVideoModel
    /\ \/ Catch(r, "Veo 3 API error")
       \/ Catch(r, "Veo 3 did not return a valid operation")
       \/ Step(r, store,
               [req[r] EXCEPT !.attempt = 0, !.baseImage = NoBase, !.modelId = Undefined,
                              !.themeName = Undefined],
               "poll")
    /\ UNCHANGED <<files, now, apiKey, clonedFrom, ops, client, canvasVars>>

\* generateVideo up to the operation handle
VideoStartReturns(r) ==
    /\ pc[r] = "generate"
    /\ req[r].isVideoModel
    /\ IF ~apiKey
       THEN Catch(r, "Missing GOOGLE_API_KEY in environment")
       ELSE \/ Catch(r, "Veo 3 API error")
            \/ Catch(r, "Veo 3 did not return a valid operation")
            \/ Step(r, store,
                    [req[r] EXCEPT !.attempt = 0, !.baseImage = NoBase, !.modelId = Undefined,
                                   !.themeName = Undefined],
                    "poll")
    /\ UNCHANGED <<files, now, apiKey, clonedFrom, ops, client, canvasVars>>

\* The answers to a status request: ok is checkRes.ok; done, uri and error
\* are checkJson.done === true, a string at
\* checkJson.result.generated_videos[0].video.uri, and a truthy
\* checkJson.error; status is checkRes.status.
PollStatuses == {200, 404, 503}
PollResponses ==
    {x \in [ok : BOOLEAN, status : PollStatuses, done : BOOLEAN, uri : BOOLEAN,
            error : BOOLEAN] : x.ok <=> x.status = 200}

\* An iteration that takes a failed status request for an unfinished operation.
RetryingPollOutcome(resp) ==
    IF ~resp.ok THEN "continue"
    ELSE IF resp.done
    THEN IF resp.uri THEN "download" ELSE "no video"
    ELSE IF resp.error THEN "failed"
    ELSE "continue"

\* part_000 294-334: what one iteration does with the answer
PollOutcome(resp) ==
    IF ~resp.ok THEN "check failed"
    ELSE IF resp.done
    THEN IF resp.uri THEN "download" ELSE "no video"
    ELSE IF resp.error THEN "failed"
    ELSE "continue"

\* One iteration of a loop of at most limit iterations, with answer resp.
PollIteration(r, resp, limit) ==
    /\ pc[r] = "poll"
    /\ req[r].attempt < limit
    /\ client # "slow" => PollOutcome(resp) # "continue"
    /\ CASE PollOutcome(resp) = "check failed" ->
                Catch(r, "Operation check failed: " \o ToString(resp.status))
         [] PollOutcome(resp) = "download" ->
                Step(r, store, [req[r] EXCEPT !.attempt = 0, !.waited = 0], "download")
         [] PollOutcome(resp) = "no video" ->
                Catch(r, "Video generation completed but no video found in response")
         [] PollOutcome(resp) = "failed" -> Catch(r, "Veo 3 generation failed")
         [] OTHER ->
                IF req[r].attempt + 1 < limit
                THEN Step(r, store,
                          [req[r] EXCEPT !.attempt = @ + 1, !.waited = @ + pollDelayMs],
                          "poll")
                ELSE Catch(r, "Veo 3 video generation timed out after 3+ minutes")
    /\ UNCHANGED <<files, now, apiKey, clonedFrom, ops, client, canvasVars>>

\* generateVideo: one iteration of the poll loop with answer resp: the wait,
\* the status request and its outcome. attempt is the loop variable, waited
\* the sum of the waits of the iterations before this one.
PollWith(r, resp) == PollIteration(r, resp, maxAttempts)

\* A poll loop that tests attempt <= maxAttempts.
OneMorePoll(r) == \E resp \in PollResponses : PollIteration(r, resp, maxAttempts + 1)

Poll(r) == \E resp \in PollResponses : PollWith(r, resp)

\* generateVideo: the fetch of the video's uri
Download(r) ==
    /\ pc[r] = "download"
    /\ \/ Step(r, store,
               [req[r] EXCEPT !.video = Buf(<<"video", r>>, RawImage(0, 0, "mp4", <<"gen", r>>))],
               "mkdir")
       \/ Catch(r, "Failed to download video")
    /\ UNCHANGED <<files, now, apiKey, clonedFrom, ops, client, canvasVars>>

\* route.ts 146-148 / 175-177: await mkdir, then the file name is taken from the clock
MkdirDone(r) ==
    /\ pc[r] = "mkdir"
    /\ \/ \E t \in 0..MaxNow :
            /\ DateNow(t)
            /\ Step(r, store,
                    [req[r] EXCEPT !.filename =
                         [sid |-> req[r].sid, t |-> t,
                          ext |-> IF req[r].isVideoModel THEN "mp4" ELSE "png"]],
                    "write")
       \/ Catch(r, "EACCES: permission denied") /\ UNCHANGED now
    /\ UNCHANGED <<files, apiKey, clonedFrom, ops, client, canvasVars>>

\* A handler that goes on without awaiting the write.
UnawaitedWriteDone(r) ==
    /\ pc[r] = "write"
    /\ store' = store
    /\ req' = req
    /\ pc' = [pc EXCEPT ![r] = "written"]
    /\ UNCHANGED <<files, now, apiKey, clonedFrom, ops, client, canvasVars>>

\* route.ts 150 / 179: the write to public/outputs completes, or fails
WriteDone(r) ==
    /\ pc[r] = "write"
    /\ \/ /\ files' = [files EXCEPT ![req[r].filename] =
                          IF req[r].isVideoModel THEN req[r].video.img ELSE req[r].png.img]
          /\ Step(r, store, req[r], "written")
       \/ /\ Catch(r, "EACCES: permission denied")
          /\ UNCHANGED files
    /\ UNCHANGED <<now, apiKey, clonedFrom, ops, client, canvasVars>>

\* A handler that records every artifact as the thread's lastImage.
AnyArtifactFinish(r) ==
    /\ pc[r] = "written"
    /\ store' = addMessage(
                    setLastImage(store, req[r].sid, req[r].threadId,
                                 IF req[r].isVideoModel THEN req[r].video ELSE req[r].png,
                                 "image/png"),
                    req[r].sid, req[r].threadId,
                    ChatMessage("a", "assistant", Undefined,
                                IF req[r].isVideoModel THEN NoUrl ELSE req[r].filename,
                                IF req[r].isVideoModel THEN req[r].filename ELSE NoUrl, r))
    /\ req' = [req EXCEPT ![r] = Returned(req[r], 200)]
    /\ pc' = [pc EXCEPT ![r] = "done"]
    /\ UNCHANGED <<files, now, apiKey, clonedFrom, ops, client, canvasVars>>

\* route.ts 151-161 / 180-193: after the write, record the result
Finish(r) ==
    /\ pc[r] = "written"
    /\ LET relUrl == req[r].filename
           s == req[r].sid
           t == req[r].threadId
       IN  IF req[r].isVideoModel
           THEN Step(r, addMessage(store, s, t,
                                   ChatMessage("a", "assistant", Undefined, NoUrl, relUrl, r)),
                     Returned(req[r], 200), "done")
           ELSE Step(r, addMessage(setLastImage(store, s, t, req[r].png, "image/png"), s, t,
                                   ChatMessage("a", "assistant", Undefined, relUrl, NoUrl, r)),
                     Returned(req[r], 200), "done")
    /\ UNCHANGED <<files, now, apiKey, clonedFrom, ops, client, canvasVars>>

\* A handler that takes no step while another request waits in the poll loop.
ExclusiveReqStep(r) ==
    /\ \A q \in Reqs \ {r} : pc[q] # "poll"
    /\ \/ PostStart(r) \/ UploadNormalized(r) \/ ThemeLoaded(r)
       \/ GenerateImageReturns(r) \/ ParseResponse(r) \/ NormalizeDone(r)
       \/ VideoStartReturns(r) \/ Poll(r) \/ Download(r)
       \/ MkdirDone(r) \/ WriteDone(r) \/ Finish(r)

ReqStep(r) ==
    \/ PostStart(r) \/ UploadNormalized(r) \/ ThemeLoaded(r)
    \/ GenerateImageReturns(r) \/ ParseResponse(r) \/ NormalizeDone(r)
    \/ VideoStartReturns(r) \/ Poll(r) \/ Download(r)
    \/ MkdirDone(r) \/ WriteDone(r) \/ Finish(r)

Next ==
    \/ \E s \in DOMAIN store, id \in Tids : CreateThread(s, id)
    \/ \E s \in DOMAIN store, source \in Tids, id \in Tids : CloneThread(s, source, id)
    \/ \E s \in DOMAIN store, id \in Tids : DeleteThread(s, id)
    \/ \E s \in DOMAIN store, t \in Tids : GetMessages(s, t)
    \/ \E r \in Reqs : ReqStep(r)

Spec == Init /\ [][Next]_vars

\* The "slow" scenario alone, where every await of the handler settles: each
\* upstream call, file operation and timer the handler waits for returns.
SlowInit == InitWith({"sA"}) /\ client = "slow"

HandlerNext == \E r \in Reqs : ReqStep(r)

SlowSpec == SlowInit /\ [][HandlerNext]_vars /\ \A r \in Reqs : WF_vars(ReqStep(r))

\* The scenario "sessions": two sessions; "sB" sends one POST of any kind,
\* and when it has returned "sA" sends any calls, at most one POST among
\* them, each awaited before the next.
IsolationInit == InitWith(Sessions) /\ client = "sessions"

IsolationSpec == IsolationInit /\ [][Next]_vars

\* The scenario "upload": one POST of any kind, with an upload of any of the
\* sizes Dims and formats Formats, and no other call.
UploadInit == InitWith({"sA"}) /\ client = "upload"

UploadSpec == UploadInit /\ [][HandlerNext]_vars

\* The "parse" scenario alone.
ParseInit == InitWith({"sA"}) /\ client = "parse"

ParseSpec == ParseInit /\ [][HandlerNext]_vars

----------------------------------------------------------------------------
(* components/Canvas.tsx: the node graph of one browser. A node is a flow   *)
(* (positions and names are left out), the server's answers are inputs.     *)

\* The ids of the nodes in the flow list.
Nodes == {flows[i] : i \in DOMAIN flows}

\* The thread id a fork ends with: j.thread, the id the server generated
\* for the clone, or `t-${Date.now()}`; one new id per call.
ForkId(k) == "t-" \o ToString(k)

\* The "+" button of node sourceId: createFlowFrom(sourceId) up to
\* `await fetch("/api/threads", ...)`
ForkClicked(k, sourceId) ==
    /\ forks[k].pc = "idle"
    /\ \A j \in Forks : j < k => forks[j].pc # "idle"
    /\ sourceId \in Nodes
    /\ forks' = [forks EXCEPT ![k] = [sourceId |-> sourceId, pc |-> "fetch"]]
    /\ UNCHANGED <<flows, active, edges>>
    /\ UNCHANGED serverVars

\* createFlowFrom after `await res.json()`: the node and the edge are
\* added, the new node becomes the active one
ForkAnswered(k) ==
    /\ forks[k].pc = "fetch"
    /\ LET id == ForkId(k)
       IN  /\ flows' = Append(flows, id)
           /\ active' = id
           /\ edges' = Append(edges, [from |-> forks[k].sourceId, to |-> id])
    /\ forks' = [forks EXCEPT ![k].pc = "done"]
    /\ UNCHANGED serverVars

\* createFlowFrom when fetch or res.json() rejects: the catch block
ForkFailed(k) ==
    /\ forks[k].pc = "fetch"
    /\ forks' = [forks EXCEPT ![k].pc = "done"]
    /\ UNCHANGED <<flows, active, edges>>
    /\ UNCHANGED serverVars

\* The delete button of node id, confirmed: the stretch of the handler up
\* to `await fetch(..., { method: "DELETE" })`
DeleteClicked(id) ==
    /\ id \in Nodes
    /\ flows' = SelectSeq(flows, LAMBDA x : x # id)
    /\ edges' = SelectSeq(edges, LAMBDA ed : ed.from # id /\ ed.to # id)
    /\ active' = IF active = id
                 THEN (IF flows' # <<>> THEN flows'[1] ELSE "default")
                 ELSE active
    /\ UNCHANGED forks
    /\ UNCHANGED serverVars

\* onMouseDown of a node
NodePressed(id) ==
    /\ id \in Nodes
    /\ active' = id
    /\ UNCHANGED <<flows, edges, forks>>
    /\ UNCHANGED serverVars

CanvasNext ==
    \/ \E k \in Forks, sourceId \in Nodes : ForkClicked(k, sourceId)
    \/ \E k \in Forks : ForkAnswered(k)
    \/ \E k \in Forks : ForkFailed(k)
    \/ \E id \in Nodes : DeleteClicked(id)
    \/ \E id \in Nodes : NodePressed(id)

\* The scenario "canvas": one browser that forks and deletes nodes at any
\* moment, the server being idle otherwise.
CanvasInit == InitWith({"sA"}) /\ client = "canvas" /\ apiKey = TRUE

CanvasSpec == CanvasInit /\ [][CanvasNext]_vars

----------------------------------------------------------------------------
(* Properties *)

\* The ThreadState object of request r's handler (route.ts 86): the thread
\* registered under the request's ids, or the object that was registered
\* there until deleteThread or cloneThread took it out of the map.
HandlerThread(r, s, t) ==
    IF req[r].threadState.detached THEN req[r].threadState.val
    ELSE ThreadAt(store, s, t)

\* b holds the canonical 1024x1024 PNG made from the pixels of src.
IsNormalized(b, src) ==
    /\ b.img.width = TARGET_SIZE /\ b.img.height = TARGET_SIZE
    /\ b.img.format = "png"
    /\ b.img.origin = src.origin

Decodable(img) == img.format \notin {"none", "bad"}

\* C1: in the step that resolves the base of a request and issues the
\* generation call, the base is the normalized upload when a file was
\* uploaded, whatever the theme and the thread hold; else the normalized
\* theme image when a theme is named and loads; else the lastImage buffer of
\* the handler's thread, unchanged; else there is no base.
C1_BasePrecedence ==
    [][\A r \in Reqs :
          pc[r] # "generate" /\ pc'[r] = "generate" =>
              LET base == req'[r].baseImage
                  th == HandlerThread(r, req'[r].sid, req'[r].threadId)
                  theme == ThemeFile(req[r].themeName)
              IN  IF pc[r] = "upload"
                  THEN /\ IsNormalized(base.data, req[r].uploadBuffer.img)
                       /\ base.mimeType = "image/png"
                  ELSE IF req[r].normalizedUpload # NoBuf
                  THEN base = [data |-> req[r].normalizedUpload, mimeType |-> "image/png"]
                  ELSE IF pc[r] = "theme" /\ Decodable(theme)
                  THEN /\ IsNormalized(base.data, theme)
                       /\ base.mimeType = "image/png"
                  ELSE IF th.lastImage # NoBuf
                  THEN base.data = th.lastImage /\ base.mimeType = th.lastImageMime
                  ELSE base = NoBase]_vars

\* An upload, a theme that loads and a lastImage of the thread are all
\* there, and the call has been issued with the upload as its base.
C1_Witness ==
    \E r \in Reqs :
        /\ pc[r] = "generate"
        /\ req[r].themeName = "sunset.jpg"
        /\ req[r].baseImage.data.img.origin = <<"upload", r>>
        /\ ThreadAt(store, req[r].sid, req[r].threadId).lastImage # NoBuf

\* The artifact of a thread: the bytes and their MIME type.
LastArtifact(th) ==
    [bytes |-> th.lastImage,
     mime |-> IF th.lastImage = NoBuf THEN Undefined ELSE th.lastImageMime]

\* The stretches of the handler inside its try block.
TryStages == {"generate", "parse", "normalize", "poll", "download", "mkdir", "write", "written"}

\* The step is one of request r's handler.
StepOf(r) == pc'[r] # pc[r] \/ req'[r].attempt # req[r].attempt

IsErrorText(text) ==
    \E m \in {"Missing GOOGLE_API_KEY in environment", "Gemini API error",
               "Gemini did not return an image payload", "Veo 3 API error",
               "Veo 3 did not return a valid operation",
               "Operation check failed: 404", "Operation check failed: 503",
               "Video generation completed but no video found in response",
               "Veo 3 generation failed",
               "Veo 3 video generation timed out after 3+ minutes",
               "Failed to download video",
               "Input buffer contains unsupported image format",
               "EACCES: permission denied"} : text = "Error: " \o m

HasNoRef(m) == m.imageUrl = NoUrl /\ m.videoUrl = NoUrl

\* C2: a request that passes validation appends exactly one user message in
\* its first step; when its generation fails inside the try block the step
\* that ends it appends exactly one assistant message with the error text
\* and answers 500; and no step of a request other than the recording of a
\* generated image changes the lastImage or its MIME type of any thread.
C2_FailedGeneration ==
    [][\A r \in Reqs :
          LET s == req'[r].sid
              t == req'[r].threadId
              before == ThreadAt(store, s, t)
              after == ThreadAt(store', s, t)
              n == Len(before.messages)
          IN  /\ pc[r] = "idle" /\ pc'[r] # "idle" /\ req'[r].status # 400 =>
                    /\ Len(after.messages) = n + 1
                    /\ SubSeq(after.messages, 1, n) = before.messages
                    /\ after.messages[n + 1].role = "user"
                    /\ after.messages[n + 1].text = req'[r].prompt
                    /\ after.messages[n + 1].req = r
              /\ pc[r] \in TryStages /\ pc'[r] = "done" /\ req'[r].status # 200 =>
                    /\ req'[r].status = 500
                    /\ Len(after.messages) = n + 1
                    /\ SubSeq(after.messages, 1, n) = before.messages
                    /\ after.messages[n + 1].role = "assistant"
                    /\ after.messages[n + 1].req = r
                    /\ IsErrorText(after.messages[n + 1].text)
                    /\ HasNoRef(after.messages[n + 1])
              /\ StepOf(r) /\ ~(pc[r] = "written" /\ ~req[r].isVideoModel) =>
                    \A s2 \in DOMAIN store, t2 \in Tids :
                        LastArtifact(ThreadAt(store', s2, t2)) =
                            LastArtifact(ThreadAt(store, s2, t2))]_vars

\* A second request on a thread that holds the image of the first has
\* failed: the log ends with its user message and its error message, and the
\* image of the first request is still the thread's lastImage.
C2_Witness ==
    \E s \in DOMAIN store, t \in Tids :
        LET th == ThreadAt(store, s, t)
        IN  /\ pc[2] = "done" /\ req[2].status = 500 /\ req[2].threadId = t
            /\ Len(th.messages) = 4
            /\ th.messages[3].role = "user" /\ th.messages[3].req = 2
            /\ th.messages[4].role = "assistant" /\ th.messages[4].req = 2
            /\ th.messages[4].text = "Error: Gemini did not return an image payload"
            /\ th.lastImage.img.origin = <<"gen", 1>>

HasImageRef(m) == m.imageUrl # NoUrl

\* C3: in every state, every thread has a lastImage exactly when its log
\* holds a message with an image reference.
C3_ArtifactIffImageMessage ==
    \A s \in DOMAIN store, t \in Tids :
        LET th == ThreadAt(store, s, t)
        IN  th.lastImage # NoBuf <=>
                \E i \in 1..Len(th.messages) : HasImageRef(th.messages[i])

\* A clone holds an image and an image message although the thread it was
\* cloned from has been deleted.
C3_Witness ==
    \E s \in DOMAIN store, t \in Tids :
        /\ clonedFrom[s][t] \notin {"", t}
        /\ ThreadAt(store, s, clonedFrom[s][t]) = Absent
        /\ ThreadAt(store, s, t).lastImage # NoBuf

\* The threads a and b of session s are a clone and its source.
Related(s, a, b) == a # b /\ (clonedFrom[s][a] = b \/ clonedFrom[s][b] = a)

\* C4: a step of a generation request on thread a (its appends and its
\* setLastImage) and a deletion of a leave every thread that a was cloned
\* from, or that was cloned from a, exactly as it was.
C4_CloneIndependence ==
    [][\A s \in DOMAIN store, a \in Tids, b \in Tids :
          /\ Related(s, a, b)
          /\ \/ DeleteThread(s, a)
             \/ \E r \in Reqs : StepOf(r) /\ req'[r].sid = s /\ req'[r].threadId = a
          => ThreadAt(store', s, b) = ThreadAt(store, s, b)]_vars

\* A request was in flight on the source when the clone was taken: the clone
\* holds its user message, and its result is in the source only.
C4_Witness ==
    \E s \in DOMAIN store, a \in Tids, b \in Tids, r \in Reqs :
        LET src == ThreadAt(store, s, a)
            cl == ThreadAt(store, s, b)
        IN  /\ a # b /\ clonedFrom[s][b] = a
            /\ pc[r] = "done" /\ req[r].status = 200 /\ req[r].threadId = a
            /\ \E i \in 1..Len(src.messages) :
                   src.messages[i].req = r /\ HasImageRef(src.messages[i])
            /\ src.lastImage # NoBuf
            /\ cl.messages # <<>>
            /\ \A i \in 1..Len(cl.messages) :
                   cl.messages[i].req = r /\ cl.messages[i].role = "user"
            /\ cl.lastImage = NoBuf

\* The source of a cloneThread call as the call finds it: an id with no
\* thread is an empty thread.
SourceOf(s, source) ==
    IF ThreadAt(store, s, source) = Absent THEN EmptyThread
    ELSE ThreadAt(store, s, source)

\* C5: the lastImage of a clone holds the bytes the source's lastImage holds
\* at the call, in storage of its own: the two buffers share no memory.
C5_CloneOwnsItsBytes ==
    [][\A s \in DOMAIN store, source \in Tids, id \in Tids :
          CloneThread(s, source, id) /\ SourceOf(s, source).lastImage # NoBuf =>
              /\ store'[s][id].lastImage.img = SourceOf(s, source).lastImage.img
              /\ store'[s][id].lastImage.mem # SourceOf(s, source).lastImage.mem]_vars

\* C6: cloneThread of a source with N messages registers a thread whose log
\* is the N messages in order, followed by one inherited assistant message
\* exactly when the source has a message with an image or video reference;
\* that message carries the references of the source's last such message;
\* lastImage and lastImageMime are those of the source.
C6_CloneLog ==
    [][\A s \in DOMAIN store, source \in Tids, id \in Tids :
          CloneThread(s, source, id) =>
              LET src == SourceOf(s, source)
                  new == store'[s][id]
                  n == Len(src.messages)
                  refs == {i \in 1..n : ~HasNoRef(src.messages[i])}
              IN  /\ SubSeq(new.messages, 1, n) = src.messages
                  /\ Len(new.messages) = IF refs # {} THEN n + 1 ELSE n
                  /\ refs # {} =>
                        LET latest == src.messages[CHOOSE i \in refs : \A j \in refs : j <= i]
                            last == new.messages[n + 1]
                        IN  /\ last.role = "assistant"
                            /\ last.id = "inherited"
                            /\ last.text = "Inherited from parent node"
                            /\ last.imageUrl = latest.imageUrl
                            /\ last.videoUrl = latest.videoUrl
                  /\ LastArtifact(new).mime = LastArtifact(src).mime
                  /\ new.lastImage.img = src.lastImage.img]_vars

\* The clone of a thread that holds a video and no image: its log is the
\* source's, then the inherited message with the video reference.
C6_Witness ==
    \E s \in DOMAIN store, a \in Tids, b \in Tids :
        LET src == ThreadAt(store, s, a)
            cl == ThreadAt(store, s, b)
        IN  /\ a # b /\ clonedFrom[s][b] = a
            /\ Len(src.messages) = 2
            /\ Len(cl.messages) = 3
            /\ SubSeq(cl.messages, 1, 2) = src.messages
            /\ cl.messages[3].id = "inherited"
            /\ cl.messages[3].videoUrl = src.messages[2].videoUrl
            /\ cl.messages[3].videoUrl # NoUrl
            /\ cl.lastImage = NoBuf

\* C7: deleteThread of a thread leaves every thread cloned from it as it
\* was, and registered.
C7_DeleteKeepsClones ==
    [][\A s \in DOMAIN store, a \in Tids, b \in Tids :
          DeleteThread(s, a) /\ b # a /\ clonedFrom[s][b] = a =>
              /\ ThreadAt(store', s, b) = ThreadAt(store, s, b)
              /\ ThreadAt(store', s, b) # Absent]_vars

\* The source of a clone has been deleted; the clone holds the image, the
\* two copied messages and its inherited message.
C7_Witness ==
    \E s \in DOMAIN store, a \in Tids, b \in Tids :
        LET cl == ThreadAt(store, s, b)
        IN  /\ a # b /\ clonedFrom[s][b] = a
            /\ ThreadAt(store, s, a) = Absent
            /\ Len(cl.messages) = 3
            /\ cl.messages[3].id = "inherited"
            /\ cl.lastImage # NoBuf

\* C8: once a request that passed validation has returned, the log of its
\* thread that holds its user message holds, later in the log, its assistant
\* message.
C8_UserThenAssistant ==
    \A r \in Reqs :
        pc[r] = "done" /\ req[r].status # 400 =>
            LET m == ThreadAt(store, req[r].sid, req[r].threadId).messages
            IN  \A i \in 1..Len(m) :
                    m[i].req = r /\ m[i].role = "user" =>
                        \E j \in (i + 1)..Len(m) :
                            m[j].req = r /\ m[j].role = "assistant"

\* The locator a message carries.
LocatorOf(m) == IF m.imageUrl # NoUrl THEN m.imageUrl ELSE m.videoUrl

\* C9: in every state, the locator of every message with an image or video
\* reference names a file that has been written, and a thread with a
\* lastImage has a written image file in its session's outputs.
C9_PersistedBeforeRecorded ==
    \A s \in DOMAIN store, t \in Tids :
        LET th == ThreadAt(store, s, t)
        IN  /\ \A i \in 1..Len(th.messages) :
                   ~HasNoRef(th.messages[i]) => files[LocatorOf(th.messages[i])] # NoImg
            /\ th.lastImage # NoBuf =>
                   \E u \in Urls : u.sid = s /\ u.ext = "png" /\ files[u] # NoImg

\* A video request has ended: its message is in the log and the file its
\* locator names holds the video.
C9_Witness ==
    \E r \in Reqs :
        LET m == ThreadAt(store, req[r].sid, req[r].threadId).messages
        IN  /\ pc[r] = "done" /\ req[r].status = 200
            /\ \E i \in 1..Len(m) :
                   /\ m[i].req = r /\ m[i].videoUrl # NoUrl
                   /\ files[m[i].videoUrl].format = "mp4"
                   /\ files[m[i].videoUrl].origin = <<"gen", r>>

\* C10: the step that records a generated image sets the thread's lastImage
\* to the normalized image of that request with MIME type image/png and
\* appends one assistant message with an image locator and no video
\* locator; on a log that holds only the user message and a thread without
\* lastImage the result is the user message, the image message and the
\* lastImage.
C10_ImageSuccess ==
    [][\A r \in Reqs :
          pc[r] = "written" /\ ~req[r].isVideoModel /\ pc'[r] = "done" =>
              LET before == ThreadAt(store, req[r].sid, req[r].threadId)
                  after == ThreadAt(store', req[r].sid, req[r].threadId)
                  n == Len(before.messages)
              IN  /\ req'[r].status = 200
                  /\ after.lastImage = req[r].png
                  /\ IsNormalized(after.lastImage, [origin |-> <<"gen", r>>])
                  /\ after.lastImageMime = "image/png"
                  /\ Len(after.messages) = n + 1
                  /\ SubSeq(after.messages, 1, n) = before.messages
                  /\ after.messages[n + 1].role = "assistant"
                  /\ after.messages[n + 1].req = r
                  /\ after.messages[n + 1].imageUrl = req[r].filename
                  /\ after.messages[n + 1].imageUrl # NoUrl
                  /\ after.messages[n + 1].videoUrl = NoUrl]_vars

\* The first request on a thread, without upload or theme, has succeeded:
\* the log is its user message and its image message, and the lastImage is
\* the 2000x1500 output cropped to the centered 1500 square.
C10_Witness ==
    \E s \in DOMAIN store, t \in Tids :
        LET th == ThreadAt(store, s, t)
        IN  /\ Len(th.messages) = 2
            /\ th.messages[1].role = "user" /\ th.messages[1].req = 1
            /\ th.messages[2].role = "assistant" /\ th.messages[2].req = 1
            /\ HasImageRef(th.messages[2]) /\ th.messages[2].videoUrl = NoUrl
            /\ th.lastImage.img.crop = <<250, 0, 1500>>
            /\ th.lastImageMime = "image/png"
            /\ pc[1] = "done" /\ req[1].status = 200


\* C11: the step that records a generated video answers 200, appends one
\* assistant message with a video locator and no image locator, and leaves
\* the lastImage and MIME type of every thread as they were; no thread's
\* lastImage and no request's base ever holds a video.
C11_VideoSuccess ==
    [][\A r \in Reqs :
          /\ pc[r] = "written" /\ req[r].isVideoModel /\ pc'[r] = "done" =>
                LET before == ThreadAt(store, req[r].sid, req[r].threadId)
                    after == ThreadAt(store', req[r].sid, req[r].threadId)
                    n == Len(before.messages)
                IN  /\ req'[r].status = 200
                    /\ Len(after.messages) = n + 1
                    /\ SubSeq(after.messages, 1, n) = before.messages
                    /\ after.messages[n + 1].role = "assistant"
                    /\ after.messages[n + 1].req = r
                    /\ after.messages[n + 1].videoUrl = req[r].filename
                    /\ after.messages[n + 1].videoUrl # NoUrl
                    /\ after.messages[n + 1].imageUrl = NoUrl
                    /\ \A s \in DOMAIN store, t \in Tids :
                           LastArtifact(ThreadAt(store', s, t)) =
                               LastArtifact(ThreadAt(store, s, t))
          /\ req'[r].baseImage.data.img.format # "mp4"
          /\ \A s \in DOMAIN store, t \in Tids :
                 ThreadAt(store', s, t).lastImage.img.format # "mp4"]_vars

\* A video request on a thread that holds the image of the first request has
\* succeeded: the log ends with the video message and the lastImage is still
\* the first request's image.
C11_Witness ==
    \E s \in DOMAIN store, t \in Tids :
        LET th == ThreadAt(store, s, t)
        IN  /\ pc[2] = "done" /\ req[2].status = 200 /\ req[2].threadId = t
            /\ Len(th.messages) = 4
            /\ th.messages[4].req = 2 /\ th.messages[4].videoUrl # NoUrl
            /\ th.messages[4].imageUrl = NoUrl
            /\ th.lastImage.img.origin = <<"gen", 1>>
            /\ th.lastImageMime = "image/png"


\* C12: a step that starts with a lastImage on a thread and ends with a
\* thread under that id ends with a lastImage on it.
C12_ArtifactStays ==
    [][\A s \in DOMAIN store, t \in Tids :
          /\ ThreadAt(store, s, t).lastImage # NoBuf
          /\ ThreadAt(store', s, t) # Absent
          => ThreadAt(store', s, t).lastImage # NoBuf]_vars

\* The same for every step that is not a cloneThread registering its clone
\* under the id of another, existing thread.
C12_ArtifactStaysUnlessReplaced ==
    [][\A s \in DOMAIN store, t \in Tids :
          /\ ThreadAt(store, s, t).lastImage # NoBuf
          /\ ThreadAt(store', s, t) # Absent
          /\ ~\E source \in Tids \ {t} : CloneThread(s, source, t)
          => ThreadAt(store', s, t).lastImage # NoBuf]_vars


TimedOut == "Error: Veo 3 video generation timed out after 3+ minutes"

\* The message a step of request r has appended to the request's thread.
Appended(r) ==
    LET m == ThreadAt(store', req'[r].sid, req'[r].threadId).messages
    IN  m[Len(m)]

\* C13: a handler in the poll loop is in one of the iterations 1..40, and
\* has waited 5 seconds for each iteration before it; an iteration whose poll
\* reports neither an end nor an error leads to the next one, except the
\* 40th, after which no poll is sent: it ends the request with the timeout
\* error. Every way out of the loop by a failure appends an error message
\* without image or video reference and answers 500. When every await
\* settles, a handler in the loop leaves it and returns.
C13_PollLoopBounded ==
    /\ [][\A r \in Reqs :
            /\ pc'[r] = "poll" =>
                  /\ req'[r].attempt \in 0..(maxAttempts - 1)
                  /\ req'[r].waited = pollDelayMs * req'[r].attempt
            /\ pc[r] = "poll" /\ pc'[r] = "poll" /\ StepOf(r) =>
                  req'[r].attempt = req[r].attempt + 1
            /\ pc[r] = "poll" /\ req[r].attempt = maxAttempts - 1 /\ StepOf(r) =>
                  pc'[r] \in {"download", "done"}
            /\ pc[r] = "poll" /\ pc'[r] = "done" =>
                  /\ req'[r].status = 500
                  /\ Appended(r).req = r
                  /\ Appended(r).role = "assistant"
                  /\ IsErrorText(Appended(r).text)
                  /\ HasNoRef(Appended(r))
                  /\ Appended(r).text = TimedOut => req[r].attempt = maxAttempts - 1
         ]_vars
    /\ \A r \in Reqs : (pc[r] = "poll") ~> (pc[r] = "done")

\* Forty polls have found the operation pending: the request has ended with
\* the timeout error as the last message of its thread, after the user
\* message.
C13_Witness ==
    LET m == ThreadAt(store, req[1].sid, req[1].threadId).messages
    IN  /\ pc[1] = "done" /\ req[1].status = 500
        /\ Len(m) = 2
        /\ m[1].role = "user"
        /\ m[2].text = TimedOut
        /\ HasNoRef(m[2])


\* The step continues the poll loop of request r: the next iteration, or the
\* timeout after the last one.
PollingContinues(r) ==
    \/ pc'[r] = "poll" /\ req'[r].attempt = req[r].attempt + 1
    \/ /\ req[r].attempt = maxAttempts - 1
       /\ pc'[r] = "done" /\ Appended(r).text = TimedOut

\* The step ends request r with the error text.
FailsWith(r, text) == pc'[r] = "done" /\ req'[r].status = 500 /\ Appended(r).text = text

\* The fetch of the video: its bytes, or the download error.
FetchOutcome(r) ==
    pc[r] = "download" /\ StepOf(r) =>
        \/ pc'[r] = "mkdir" /\ req'[r].video.img.format = "mp4"
        \/ FailsWith(r, "Error: Failed to download video")

\* C14: a status poll that is answered has one outcome: an answer with an
\* error payload ends the call with the upstream-operation error; an answer
\* that reports completion (and no error) with a video leads to the fetch of
\* that video, which yields its bytes or the download error; an answer with
\* neither continues the loop; after an answer with completion or an error
\* payload no further poll is sent.
C14_PollOutcomes ==
    [][\A r \in Reqs :
          /\ FetchOutcome(r)
          /\ \A resp \in PollResponses :
                PollWith(r, resp) /\ resp.ok =>
                    /\ resp.error => FailsWith(r, "Error: Veo 3 generation failed")
                    /\ resp.done /\ ~resp.error /\ resp.uri => pc'[r] = "download"
                    /\ ~resp.done /\ ~resp.error => PollingContinues(r)
                    /\ resp.done \/ resp.error => pc'[r] # "poll"]_vars

\* The same with the tests in the order of the code: completion first, with
\* the no-video error for a completed operation without a video, and the
\* error payload looked at only when the operation is not complete.
C14_PollOutcomesCompletionFirst ==
    [][\A r \in Reqs :
          /\ FetchOutcome(r)
          /\ \A resp \in PollResponses :
                PollWith(r, resp) /\ resp.ok =>
                    /\ resp.done /\ resp.uri => pc'[r] = "download"
                    /\ resp.done /\ ~resp.uri =>
                          FailsWith(r, "Error: Video generation completed but no video found in response")
                    /\ ~resp.done /\ resp.error =>
                          FailsWith(r, "Error: Veo 3 generation failed")
                    /\ ~resp.done /\ ~resp.error => PollingContinues(r)
                    /\ resp.done \/ resp.error => pc'[r] # "poll"]_vars


\* C15: the step in which the normalization of the upload fails ends the
\* request without a model call, answers 500 and appends, after the user
\* message, an assistant message of that request with the error text.
C15_UploadDecodeErrorReported ==
    [][\A r \in Reqs :
          pc[r] = "upload" /\ pc'[r] = "done" =>
              LET before == ThreadAt(store, req[r].sid, req[r].threadId).messages
                  after == ThreadAt(store', req[r].sid, req[r].threadId).messages
              IN  /\ req'[r].status = 500
                  /\ Len(after) = Len(before) + 1
                  /\ after[Len(after)].req = r
                  /\ after[Len(after)].role = "assistant"
                  /\ HasNoRef(after[Len(after)])]_vars

\* C16: the step that ends the loading of a theme appends nothing and issues
\* the generation call; when the named theme is missing or cannot be decoded
\* (and no file was uploaded) the base is the lastImage of the handler's
\* thread, or there is no base.
C16_ThemeFailureIgnored ==
    [][\A r \in Reqs :
          pc[r] = "theme" /\ StepOf(r) =>
              LET th == HandlerThread(r, req[r].sid, req[r].threadId)
              IN  /\ pc'[r] = "generate"
                  /\ store' = store
                  /\ req'[r].status = 0
                  /\ ~Decodable(ThemeFile(req[r].themeName)) /\ req[r].normalizedUpload = NoBuf =>
                        IF th.lastImage # NoBuf
                        THEN req'[r].baseImage.data = th.lastImage
                        ELSE req'[r].baseImage = NoBase]_vars

\* A request names a theme that cannot be decoded, on a thread that holds the
\* image of the first request: the call has been issued with that image as
\* base, and the log ends with the request's user message.
C16_Witness ==
    LET th == ThreadAt(store, req[2].sid, req[2].threadId)
    IN  /\ pc[2] = "generate"
        /\ req[2].themeName = "broken.png"
        /\ req[2].baseImage.data = th.lastImage
        /\ th.lastImage.img.origin = <<"gen", 1>>
        /\ th.messages[Len(th.messages)].role = "user"
        /\ th.messages[Len(th.messages)].req = 2


\* C17: in the step that issues the generation call, the handler takes the
\* video branch exactly when getSystemPrompt returns the video guidance for
\* the request's model id, and it takes it for the video id of the selector.
C17_VideoTestsAgree ==
    [][\A r \in Reqs :
          pc[r] # "generate" /\ pc'[r] = "generate" =>
              /\ req'[r].isVideoModel <=>
                     \A t \in TemplateIds \cup {Undefined} :
                         getSystemPrompt(req'[r].modelId, t) = VIDEO_SYSTEM_PROMPT
              /\ req'[r].modelId = UiVideoModel => req'[r].isVideoModel]_vars


\* The parts of all candidates of a response, in document order.
RECURSIVE PartsOf(_, _)
PartsOf(candidates, i) ==
    IF i > Len(candidates) THEN <<>> ELSE candidates[i] \o PartsOf(candidates, i + 1)

HasInlineData(p) == p.inline.present /\ p.inline.data # Undefined
IsDataUri(p) == p.text.kind = "uri"
FirstIndex(ps, P(_)) == CHOOSE i \in 1..Len(ps) : P(ps[i]) /\ \A j \in 1..(i - 1) : ~P(ps[j])
Has(ps, P(_)) == \E i \in 1..Len(ps) : P(ps[i])

\* The payload the three-pass reading selects: the first inline-data part of
\* any candidate; failing that the first data-URI text part; failing that
\* images[0].
ThreePassData(json) ==
    LET ps == PartsOf(json.candidates, 1)
    IN  IF Has(ps, HasInlineData) THEN ps[FirstIndex(ps, HasInlineData)].inline.data
        ELSE IF Has(ps, IsDataUri) THEN ps[FirstIndex(ps, IsDataUri)].text.data
        ELSE IF Len(json.images) > 0 THEN json.images[1].data
        ELSE Undefined

\* The payload a single pass over the parts selects: the first part that
\* carries inline data or is a data-URI text; failing that images[0].
IsPayloadPart(p) == HasInlineData(p) \/ IsDataUri(p)
OnePassData(json) ==
    LET ps == PartsOf(json.candidates, 1)
    IN  IF Has(ps, IsPayloadPart)
        THEN LET p == ps[FirstIndex(ps, IsPayloadPart)]
             IN  IF HasInlineData(p) THEN p.inline.data ELSE p.text.data
        ELSE IF Len(json.images) > 0 THEN json.images[1].data
        ELSE Undefined

ReturnsPayload(r, data) ==
    IF data = Undefined
    THEN FailsWith(r, "Error: Gemini did not return an image payload")
    ELSE pc'[r] = "normalize" /\ req'[r].image = Buf(<<"gen", r>>, Base64Decode(data, r))

Parsed(r) == pc[r] = "parse" /\ pc'[r] # "parse"

\* C18: a successful response is read in three passes: the first inline-data
\* part of any candidate is returned; only if there is none, the first text
\* part that is a data-URI image; only if there is none, the first element
\* of the images array; a response with none of them fails with the
\* no-artifact error. In particular a response holding both an inline-data
\* part and a data-URI text part yields the inline-data part.
C18_ParseOrder ==
    [][\A r \in Reqs : Parsed(r) => ReturnsPayload(r, ThreePassData(req[r].json))]_vars

\* What the code does instead (not the claim): the parts are read once, in
\* order, and each part is tried as inline data and then as data-URI text.
C18_ParseInPartOrder ==
    [][\A r \in Reqs : Parsed(r) => ReturnsPayload(r, OnePassData(req[r].json))]_vars


IsPrefix(a, b) == Len(a) <= Len(b) /\ SubSeq(b, 1, Len(a)) = a

\* The thread getThread(s, t) returns in the current state: the registered
\* one, or a new empty one.
GotThread(s, t) == IF ThreadAt(store, s, t) = Absent THEN EmptyThread ELSE ThreadAt(store, s, t)

FirstAccess(r) == pc[r] = "idle" /\ pc'[r] # "idle" /\ req'[r].status # 400

\* C19: creation on first access is idempotent, whatever the interleaving of
\* the requests. A request's first access to (session, thread) registers an
\* empty thread only if none is registered, else it takes the registered
\* one, and its user message is appended to that thread; a GET does the same
\* without appending; no step of a request removes a message another request
\* appended; and when no branch operation arrives while a request runs, the
\* thread of every running request is registered and the reference the
\* request holds, if any, is to that registered thread.
C19_FirstAccessIdempotent ==
    [][/\ \A r \in Reqs : FirstAccess(r) =>
             LET s == req'[r].sid
                 t == req'[r].threadId
                 after == ThreadAt(store', s, t)
             IN  /\ Len(after.messages) = Len(GotThread(s, t).messages) + 1
                 /\ [after EXCEPT !.messages = SubSeq(@, 1, Len(@) - 1)] = GotThread(s, t)
                 /\ after.messages[Len(after.messages)].req = r
                 /\ after.messages[Len(after.messages)].role = "user"
       /\ \A s \in DOMAIN store, t \in Tids :
             GetMessages(s, t) => ThreadAt(store', s, t) = GotThread(s, t)
       /\ (\E r \in Reqs : StepOf(r)) =>
             \A s \in DOMAIN store, t \in Tids :
                 IsPrefix(ThreadAt(store, s, t).messages, ThreadAt(store', s, t).messages)
       /\ client # "branching" =>
             \A r \in Reqs :
                 \/ pc'[r] \in {"idle", "done"}
                 \/ /\ ~req'[r].threadState.detached
                    /\ ThreadAt(store', req'[r].sid, req'[r].threadId) # Absent]_vars

\* Case of C19: two overlapping requests made their first access to the same
\* thread of the same session, both are still running, and the thread holds
\* the user message of each.
C19_Witness ==
    /\ client = "overlap"
    /\ pc[1] \notin {"idle", "done"} /\ pc[2] \notin {"idle", "done"}
    /\ req[1].sid = req[2].sid /\ req[1].threadId = req[2].threadId
    /\ LET m == ThreadAt(store, req[1].sid, req[1].threadId).messages
       IN  Len(m) = 2 /\ m[1].req # m[2].req


\* The message used to append twice.
Twice == ChatMessage("u", "user", "draw a cat logo", NoUrl, NoUrl, 1)

AppendTwiceGivesTwoEntries ==
    \A s \in DOMAIN store, t \in Tids :
        ThreadAt(addMessage(addMessage(store, s, t, Twice), s, t, Twice), s, t).messages
            = ThreadAt(store, s, t).messages \o <<Twice, Twice>>

\* C20: the message log of a thread is append-only: every step that starts
\* and ends with a thread registered under an id leaves the log it had as a
\* prefix of the log it has, and appending one message twice to a thread
\* adds two entries.
C20_AppendOnly ==
    [][/\ \A s \in DOMAIN store, t \in Tids :
             /\ ThreadAt(store, s, t) # Absent
             /\ ThreadAt(store', s, t) # Absent
             => IsPrefix(ThreadAt(store, s, t).messages, ThreadAt(store', s, t).messages)
       /\ AppendTwiceGivesTwoEntries]_vars

\* The same for every step that is not a cloneThread registering its clone
\* under an id that has a thread already.
C20_AppendOnlyUnlessReplaced ==
    [][/\ \A s \in DOMAIN store, t \in Tids :
             /\ ThreadAt(store, s, t) # Absent
             /\ ThreadAt(store', s, t) # Absent
             /\ ~\E source \in Tids : CloneThread(s, source, t)
             => IsPrefix(ThreadAt(store, s, t).messages, ThreadAt(store', s, t).messages)
       /\ AppendTwiceGivesTwoEntries]_vars


\* The artifact of a thread: bytes and MIME type (none when unregistered).
ArtifactOf(th) ==
    <<th.lastImage,
      IF th.lastImageMime \in {"absent", "no session"} THEN Undefined ELSE th.lastImageMime>>

ProbeBuf == Buf(<<"probe", 0>>, RawImage(TARGET_SIZE, TARGET_SIZE, "png", <<"probe", 0>>))

OthersUnchanged(st, st2, s, t) ==
    \A s2 \in DOMAIN st, t2 \in Tids :
        (s2 # s \/ t2 # t) => ThreadAt(st2, s2, t2) = ThreadAt(st, s2, t2)

\* C21: on every reachable store, setLastImage on a thread sets exactly that
\* thread's bytes and MIME type and leaves its log and every other thread as
\* they were; addMessage on a thread appends to exactly that thread's log
\* and leaves every artifact and every other log as they were. In the
\* handler: a step of a request changes no thread but the request's own,
\* and only the step recording a generated image changes its artifact,
\* keeping the log it had as the log's prefix.
C21_FrameEffects ==
    [][/\ \A s \in DOMAIN store, t \in Tids :
             LET st2 == setLastImage(store, s, t, ProbeBuf, "image/jpeg")
                 st3 == addMessage(store, s, t, Twice)
             IN  /\ ArtifactOf(ThreadAt(st2, s, t)) = <<ProbeBuf, "image/jpeg">>
                 /\ ThreadAt(st2, s, t).messages = ThreadAt(store, s, t).messages
                 /\ OthersUnchanged(store, st2, s, t)
                 /\ ThreadAt(st3, s, t).messages = Append(ThreadAt(store, s, t).messages, Twice)
                 /\ ArtifactOf(ThreadAt(st3, s, t)) = ArtifactOf(ThreadAt(store, s, t))
                 /\ OthersUnchanged(store, st3, s, t)
       /\ \A r \in Reqs : StepOf(r) =>
             LET s == req'[r].sid
                 t == req'[r].threadId
             IN  /\ OthersUnchanged(store, store', s, t)
                 /\ IsPrefix(ThreadAt(store, s, t).messages, ThreadAt(store', s, t).messages)
                 /\ \/ pc[r] = "written" /\ ~req[r].isVideoModel
                    \/ ArtifactOf(ThreadAt(store', s, t)) = ArtifactOf(ThreadAt(store, s, t))]_vars

\* Case of C21: a request has recorded an image on one thread while another
\* thread of the session holds its own log and another artifact.
C21_Witness ==
    /\ pc[2] = "done" /\ req[2].status = 200
    /\ \E t \in Tids \ {req[2].threadId} :
          LET mine == ThreadAt(store, req[2].sid, req[2].threadId)
              other == ThreadAt(store, req[2].sid, t)
          IN  /\ mine.lastImage.mem = <<"png", 2>>
              /\ other.lastImage.mem = <<"png", 1>>
              /\ Len(other.messages) = 2 /\ Len(mine.messages) = 2


\* C22: on every reachable store deleteThread returns true exactly when the
\* id has a thread, leaves the id without thread, log or artifact, leaves
\* every other thread as it was, and when it returns false changes no
\* thread at all; a DELETE step ends in the store deleteThread yields.
C22_DeleteThread ==
    [][/\ \A s \in DOMAIN store, id \in Tids :
             LET res == deleteThread(store, s, id)
             IN  /\ res.ok <=> ThreadAt(store, s, id) # Absent
                 /\ ThreadAt(res.st, s, id) = Absent
                 /\ ThreadAt(res.st, s, id).messages = <<>>
                 /\ ThreadAt(res.st, s, id).lastImage = NoBuf
                 /\ OthersUnchanged(store, res.st, s, id)
                 /\ ~res.ok => \A t \in Tids : ThreadAt(res.st, s, t) = ThreadAt(store, s, t)
       /\ \A s \in DOMAIN store, id \in Tids :
             DeleteThread(s, id) =>
                 /\ store' = deleteThread(store, s, id).st
                 /\ ThreadAt(store', s, id) = Absent
                 /\ OthersUnchanged(store, store', s, id)]_vars

\* Case of C22: the thread on which a request recorded its image and its two
\* messages has been deleted.
C22_Witness ==
    \E r \in Reqs :
        /\ pc[r] = "done" /\ req[r].status = 200
        /\ ThreadAt(store, req[r].sid, req[r].threadId) = Absent
        /\ store[req[r].sid] # NoSession


\* Request r is suspended inside generateVideo: waiting for the start call,
\* between polls or for a poll response, or for the download.
InVideoCall(r) == req[r].isVideoModel /\ pc[r] \in {"generate", "poll", "download"}

\* C23: while a request waits in the video poll loop, every other request
\* that has not returned can take its next step, and a request not yet
\* received can be received; and a step of a request inside generateVideo
\* leaves the thread store as it is unless it is the failure that ends the
\* request (the catch block, after the call has thrown).
C23_PollDoesNotBlock ==
    [][/\ \A r \in Reqs, q \in Reqs :
             pc[r] = "poll" /\ q # r /\ pc[q] # "done"
             /\ (pc[q] = "idle" => client = "overlap" /\ q > r)
             => ENABLED ReqStep(q)
       /\ \A r \in Reqs :
             StepOf(r) /\ InVideoCall(r) /\ pc'[r] # "done" => store' = store]_vars

\* Case of C23: a second request, on another thread, has run from its
\* reception to its successful end while the first waits in the poll loop.
C23_Witness ==
    /\ client = "overlap"
    /\ pc[1] = "poll"
    /\ pc[2] = "done" /\ req[2].status = 200
    /\ req[2].threadId # req[1].threadId
    /\ ThreadAt(store, req[2].sid, req[2].threadId).lastImage.mem = <<"png", 2>>



\* The store with session b as it is before its first call.
Blank(st, b) == [st EXCEPT ![b] = NoSession]

\* What the store functions do under session a: the stores they leave and
\* the values they return.
Under(st, a, t) ==
    <<getMessages(st, a, t), ThreadAt(getMessages(st, a, t), a, t).messages,
      addMessage(st, a, t, Twice),
      setLastImage(st, a, t, ProbeBuf, "image/jpeg"),
      createThread(st, a, t),
      cloneThread(st, a, "default", t), cloneThread(st, a, "t1", t),
      deleteThread(st, a, t).st, deleteThread(st, a, t).ok>>

StoreResults == {1, 3, 4, 5, 6, 7, 8}

\* The store functions called under a on store st leave b alone and do not
\* depend on b.
Isolated(st, a, b) ==
    \A t \in Tids :
        LET u == Under(st, a, t)
            v == Under(Blank(st, b), a, t)
        IN  /\ \A i \in StoreResults : u[i][b] = st[b] /\ u[i][a] = v[i][a]
            /\ u[2] = v[2] /\ u[9] = v[9]

\* C24: sessions are isolated. On every store a step leaves, each store function
\* called under a session a leaves every other session b as it is, and what
\* it returns and leaves under a is what it returns and leaves when b has no
\* state at all. Every step of a thread call or of a request changes the
\* threads of the caller's session only, and the base image a request takes
\* is never an artifact of another session.
C24_SessionIsolation ==
    [][/\ store' # store =>
             \A a \in DOMAIN store : \A b \in DOMAIN store \ {a} : Isolated(store', a, b)
       /\ \A s \in DOMAIN store, id \in Tids, source \in Tids :
             \/ CreateThread(s, id) \/ CloneThread(s, source, id)
             \/ DeleteThread(s, id) \/ GetMessages(s, id)
             => \A b \in DOMAIN store \ {s} : store'[b] = store[b]
       /\ \A r \in Reqs : StepOf(r) =>
             \A b \in DOMAIN store \ {req'[r].sid}, t \in Tids :
                 /\ store'[b] = store[b]
                 /\ \/ ThreadAt(store, b, t).lastImage = NoBuf
                    \/ req'[r].baseImage.data # ThreadAt(store, b, t).lastImage]_vars

\* Case of C24: both sessions have recorded an image on a thread of the
\* same id, and the two threads hold different artifacts and logs.
C24_Witness ==
    /\ pc[1] = "done" /\ pc[2] = "done"
    /\ req[1].sid # req[2].sid /\ req[1].threadId = req[2].threadId
    /\ LET a == ThreadAt(store, req[2].sid, req[2].threadId)
           b == ThreadAt(store, req[1].sid, req[1].threadId)
       IN  /\ a.lastImage.mem = <<"png", 2>> /\ b.lastImage.mem = <<"png", 1>>
           /\ \A i \in 1..Len(a.messages) : a.messages[i].req # 1
           /\ \A i \in 1..Len(b.messages) : b.messages[i].req = 1


MissingKey == "Error: Missing GOOGLE_API_KEY in environment"

\* The stages a handler is in only after an upstream request was sent.
AfterUpstream == {"parse", "normalize", "poll", "download", "mkdir", "write", "written"}

\* C25: when GOOGLE_API_KEY is not set, the step in which a handler's call
\* of generateOrEditImage or generateVideo ends is its last: it answers 500
\* and appends to the log of its thread one assistant message with the
\* missing-key text and no image or video reference, the thread's artifact
\* and the output files stay as they were, and (no thread call arriving
\* meanwhile) the request's user message is earlier in that log; no handler
\* is ever at a stage that follows an upstream request.
C25_MissingKeyFailsFast ==
    [][\A r \in Reqs :
          /\ ~apiKey' => pc'[r] \notin AfterUpstream
          /\ pc[r] = "generate" /\ StepOf(r) /\ ~apiKey =>
                LET before == ThreadAt(store, req[r].sid, req[r].threadId)
                    after == ThreadAt(store', req[r].sid, req[r].threadId)
                    n == Len(before.messages)
                IN  /\ pc'[r] = "done" /\ req'[r].status = 500
                    /\ Len(after.messages) = n + 1
                    /\ SubSeq(after.messages, 1, n) = before.messages
                    /\ after.messages[n + 1].role = "assistant"
                    /\ after.messages[n + 1].text = MissingKey
                    /\ HasNoRef(after.messages[n + 1])
                    /\ ArtifactOf(after) = ArtifactOf(before)
                    /\ files' = files
                    /\ client # "branching" =>
                          \E i \in 1..n : /\ before.messages[i].req = r
                                           /\ before.messages[i].role = "user"]_vars

\* Case of C25: without the key, two requests on one thread have each left
\* their user message followed by the missing-key message.
C25_Witness ==
    /\ ~apiKey
    /\ pc[1] = "done" /\ pc[2] = "done" /\ req[1].status = 500 /\ req[2].status = 500
    /\ req[1].threadId = req[2].threadId
    /\ LET m == ThreadAt(store, req[2].sid, req[2].threadId).messages
       IN  /\ Len(m) = 4
           /\ m[1].role = "user" /\ m[2].text = MissingKey
           /\ m[3].role = "user" /\ m[4].text = MissingKey
           /\ m[1].text = m[3].text


\* The ids that carry the image-model name, in any case and position.
GeminiNamed == {"gemini-2.5-flash-image-preview", "Gemini-Pro-Vision", "models/GEMINI"}

SelectedFor(id) == IF id \in GeminiNamed THEN id ELSE GEMINI_IMAGE_MODEL

\* C26: generateOrEditImage calls the model the caller named when the id
\* carries the image-model name, and the default image model for every
\* other id: a missing or empty one, one without the name, the video ids.
\* This holds for the function on every id and for the call a handler
\* issues on its image branch.
C26_ModelSelection ==
    [][\A r \in Reqs :
          pc[r] # "generate" /\ pc'[r] = "generate" =>
              /\ \A id \in ModelIds \cup MoreModelIds \cup {""} :
                    selectImageModel(id) = SelectedFor(id)
              /\ ~req'[r].isVideoModel => req'[r].model = SelectedFor(req'[r].modelId)]_vars

\* Case of C26: an image call is in flight for an id that carries the name
\* in capitals after a prefix, and calls the model of that id.
C26_Witness ==
    /\ pc[1] = "generate" /\ ~req[1].isVideoModel
    /\ req[1].modelId = "models/GEMINI" /\ req[1].model = "models/GEMINI"


\* Template ids a caller can pass: the defined ones, none, an empty one, one
\* no template has, and names of members every object has.
TemplateInputs == TemplateIds \cup {Undefined, "", "poster"} \cup InheritedKeys

GuidanceTexts == {VIDEO_SYSTEM_PROMPT} \cup {TemplatePrompt(t) : t \in TemplateIds}

GuidanceFor(modelId, templateId) ==
    IF modelId = UiVideoModel THEN VIDEO_SYSTEM_PROMPT
    ELSE IF templateId \in TemplateIds THEN TemplatePrompt(templateId)
    ELSE TemplatePrompt("logo")

IssuesCall(r) == pc[r] # "generate" /\ pc'[r] = "generate"

\* C27: for the model id of every generation call a handler issues and for
\* every template id, getSystemPrompt returns a guidance text: the video
\* guidance for the video model id, else the text of the template when the
\* id is a defined template, else the logo template's text.
C27_SystemPrompt ==
    [][\A r \in Reqs : IssuesCall(r) =>
          \A t \in TemplateInputs :
              /\ getSystemPrompt(req'[r].modelId, t) \in GuidanceTexts
              /\ getSystemPrompt(req'[r].modelId, t) = GuidanceFor(req'[r].modelId, t)]_vars

\* The same for the template ids that are not names of inherited members.
C27_SystemPromptOwnOrUnknown ==
    [][\A r \in Reqs : IssuesCall(r) =>
          \A t \in TemplateInputs \ InheritedKeys :
              /\ getSystemPrompt(req'[r].modelId, t) \in GuidanceTexts
              /\ getSystemPrompt(req'[r].modelId, t) = GuidanceFor(req'[r].modelId, t)]_vars


IsCanonical(b) ==
    b.img.width = TARGET_SIZE /\ b.img.height = TARGET_SIZE /\ b.img.format = "png"

\* The normalized upload a handler holds after the step that normalized it.
NormalizedUploadOf(r) ==
    IF pc'[r] = "theme" THEN req'[r].normalizedUpload ELSE req'[r].baseImage.data

\* C28: the step that normalizes a decodable upload of any width, height and
\* format, and the step that normalizes a decodable generated image, yield
\* a 1024x1024 PNG of the same picture; normalizing that result again
\* returns it as it is; and an input that is a 1024x1024 PNG already is
\* returned as it is.
C28_NormalizeIdempotent ==
    [][\A r \in Reqs :
          /\ pc[r] = "upload" /\ StepOf(r) /\ Decodable(req[r].uploadBuffer.img) =>
                LET out == NormalizedUploadOf(r)
                IN  /\ pc'[r] # "done"
                    /\ IsCanonical(out) /\ IsNormalized(out, req[r].uploadBuffer.img)
                    /\ enforcePng1024(out, <<"again", r>>) = [ok |-> TRUE, buf |-> out]
                    /\ IsCanonical(req[r].uploadBuffer) => out = req[r].uploadBuffer
          /\ pc[r] = "normalize" /\ StepOf(r) /\ Decodable(req[r].image.img) =>
                LET out == req'[r].png
                IN  /\ pc'[r] # "done"
                    /\ IsCanonical(out) /\ IsNormalized(out, req[r].image.img)
                    /\ enforcePng1024(out, <<"again", r>>) = [ok |-> TRUE, buf |-> out]
                    /\ IsCanonical(req[r].image) => out = req[r].image]_vars

\* Cases of C28: a handler holds the normalized form of a 2x1025 JPEG
\* upload as its base image.
C28_Witness ==
    /\ pc[1] = "generate"
    /\ req[1].baseImage.data.mem = <<"nupload", 1>>
    /\ req[1].baseImage.data.img.crop = <<0, 511, 2>>
    /\ IsCanonical(req[1].baseImage.data)


\* C29: the step that normalizes an upload of width w and height h that is
\* not a 1024x1024 PNG crops the square of side min(w, h) at
\* left = floor((w - side) / 2), top = floor((h - side) / 2): the square lies
\* inside the source, left or top is 0, and the margin right of (below) the
\* square is the left (top) margin or one pixel more; the generated
\* 2000x1500 image is cropped to the 1500 square at left 250, top 0.
C29_CenteredCrop ==
    [][\A r \in Reqs :
          /\ pc[r] = "upload" /\ StepOf(r) /\ Decodable(req[r].uploadBuffer.img)
             /\ ~IsCanonical(req[r].uploadBuffer) =>
                LET w == req[r].uploadBuffer.img.width
                    h == req[r].uploadBuffer.img.height
                    crop == NormalizedUploadOf(r).img.crop
                    left == crop[1]
                    top == crop[2]
                    side == crop[3]
                IN  /\ side = Min(w, h)
                    /\ 2 * left <= w - side /\ w - side < 2 * left + 2
                    /\ 2 * top <= h - side /\ h - side < 2 * top + 2
                    /\ left >= 0 /\ top >= 0
                    /\ left + side <= w /\ top + side <= h
                    /\ left = 0 \/ top = 0
                    /\ (w - side - left) \in {left, left + 1}
                    /\ (h - side - top) \in {top, top + 1}
          /\ pc[r] = "normalize" /\ StepOf(r) /\ req[r].image.img.width = 2000
             /\ req[r].image.img.height = 1500 =>
                req'[r].png.img.crop = <<250, 0, 1500>>]_vars

\* Case of C29: a 2000x1025 upload has been cropped with an odd remainder,
\* 487 pixels left of the square and 488 right of it.
C29_Witness ==
    /\ pc[1] = "generate"
    /\ req[1].baseImage.data.mem = <<"nupload", 1>>
    /\ req[1].baseImage.data.img.crop = <<487, 0, 1025>>


\* The positions of the log m that hold a message of the given role sent by
\* one of the requests rs.
MessagesOf(m, role, rs) ==
    {i \in DOMAIN m : m[i].role = role /\ m[i].id # "inherited" /\ m[i].req \in rs}

\* The requests that passed validation for thread t of session s, and those
\* of them that have finished.
Validated(s, t) ==
    {r \in Reqs : pc[r] # "idle" /\ req[r].sid = s /\ req[r].threadId = t
                   /\ req[r].status # 400}
FinishedValidated(s, t) == {r \in Validated(s, t) : pc[r] = "done"}

\* No message is lost or duplicated in thread t of session s: one user
\* message for each validated request, one assistant message for each
\* finished one, a request's user message before its assistant message.
NoMessageLost(s, t) ==
    LET m == ThreadAt(store, s, t).messages
    IN  /\ \A r \in Validated(s, t) : Cardinality(MessagesOf(m, "user", {r})) = 1
        /\ \A r \in FinishedValidated(s, t) :
              /\ Cardinality(MessagesOf(m, "assistant", {r})) = 1
              /\ \A i \in MessagesOf(m, "user", {r}), j \in MessagesOf(m, "assistant", {r}) :
                    i < j
        /\ Cardinality(MessagesOf(m, "user", Reqs)) = Cardinality(Validated(s, t))
        /\ Cardinality(MessagesOf(m, "assistant", Reqs)) = Cardinality(FinishedValidated(s, t))

\* A clone holds the log and the artifact its source has in the state the
\* call is made in, followed by nothing but the inherited message.
CloneIsSnapshot ==
    \A s \in DOMAIN store, source \in Tids, id \in Tids :
        CloneThread(s, source, id) =>
            LET src == GotThread(s, source)
                cl == ThreadAt(store', s, id)
            IN  /\ IsPrefix(src.messages, cl.messages)
                /\ Len(cl.messages) <= Len(src.messages) + 1
                /\ Len(cl.messages) = Len(src.messages) + 1 =>
                       cl.messages[Len(cl.messages)].id = "inherited"
                /\ cl.lastImage = src.lastImage
                /\ cl.lastImage # NoBuf <=>
                       \E i \in 1..Len(cl.messages) : HasImageRef(cl.messages[i])

\* C30: when requests target a thread concurrently and no thread call has
\* changed the store (so nothing was deleted), the log of the thread holds
\* exactly one user message for each validated request and exactly one
\* assistant message for each validated request that has finished, the
\* user message of a request before its assistant message; and a clone
\* taken at any moment holds a log and an artifact the source had together
\* in one state.
C30_NoMessageLost ==
    /\ [](ops = 0 => \A s \in DOMAIN store, t \in Tids : NoMessageLost(s, t))
    /\ [][CloneIsSnapshot]_vars

\* What the code guarantees: the same, for the requests that did not end in
\* the normalization of an undecodable upload, which answers 500 and
\* appends nothing.
C30_NoMessageLostWithoutUploads ==
    /\ [](client = "overlap" =>
             \A s \in DOMAIN store, t \in Tids : NoMessageLost(s, t))
    /\ [][CloneIsSnapshot]_vars

\* Two requests to the same thread have overlapped and both have finished.
C30_OverlapReached ==
    /\ client = "overlap"
    /\ pc[1] = "done" /\ pc[2] = "done"
    /\ req[1].threadId = req[2].threadId
    /\ LET m == ThreadAt(store, "sA", req[1].threadId).messages
       IN  Len(m) = 4 /\ m[1].req = 1 /\ m[2].req = 2 /\ m[3].req = 2 /\ m[4].req = 1


\* C31: the step that answers a POST whose prompt is missing or empty, or
\* whose body cannot be parsed, answers 400, ends the request without a
\* generation call, and leaves the store (sessions, threads, logs,
\* artifacts) and the persisted files as they were; a POST with a prompt is
\* not rejected and appends its user message.
C31_RejectChangesNothing ==
    [][\A r \in Reqs :
          pc[r] = "idle" /\ pc'[r] # "idle" =>
              IF req'[r].prompt = ""
              THEN /\ pc'[r] = "done"
                   /\ req'[r].status = 400
                   /\ req'[r].baseImage = NoBase
                   /\ store' = store
                   /\ files' = files
              ELSE /\ req'[r].status # 400
                   /\ Appended(r).role = "user"
                   /\ Appended(r).req = r
                   /\ Appended(r).text = req'[r].prompt]_vars

\* Case of C31: after a successful request, a second request naming another
\* thread has been rejected, and that thread does not exist.
C31_Witness ==
    /\ pc[1] = "done" /\ req[1].status = 200
    /\ pc[2] = "done" /\ req[2].status = 400
    /\ req[2].threadId # req[1].threadId
    /\ ThreadAt(store, "sA", req[2].threadId) = Absent


\* C32: an iteration of the poll loop whose status request is answered with
\* a non-success HTTP status ends the video call in that step, whatever the
\* number of attempts left and whatever the body says: no further poll is
\* sent, the request ends with status 500, and the message appended is an
\* assistant message with the operation-check error naming that status and
\* without image or video reference.
C32_FailedPollEndsOperation ==
    [][\A r \in Reqs, resp \in PollResponses :
          PollWith(r, resp) /\ ~resp.ok =>
              /\ pc'[r] = "done"
              /\ FailsWith(r, "Error: Operation check failed: " \o ToString(resp.status))
              /\ Appended(r).role = "assistant"
              /\ Appended(r).req = r
              /\ HasNoRef(Appended(r))
              /\ Len(ThreadAt(store', req[r].sid, req[r].threadId).messages) =
                     Len(ThreadAt(store, req[r].sid, req[r].threadId).messages) + 1
              /\ files' = files]_vars

\* Case of C32: a video request has ended with the operation-check error of
\* a 503 answer: its thread holds the user message and that error message.
C32_Witness ==
    \E r \in Reqs :
        LET m == ThreadAt(store, req[r].sid, req[r].threadId).messages
        IN  /\ pc[r] = "done" /\ req[r].status = 500
            /\ Len(m) = 2
            /\ m[1].role = "user" /\ m[1].req = r
            /\ m[2].req = r
            /\ m[2].text = "Error: Operation check failed: 503"


\* C33: in every state, every message of every thread (messages of
\* requests, inherited messages, and their copies in clones and in clones
\* of clones) has at most one of imageUrl and videoUrl set, and user
\* messages and error messages have neither.
C33_OneReferencePerMessage ==
    \A s \in DOMAIN store, t \in Tids :
        LET m == ThreadAt(store, s, t).messages
        IN  \A i \in 1..Len(m) :
                /\ m[i].imageUrl = NoUrl \/ m[i].videoUrl = NoUrl
                /\ m[i].role = "user" \/ IsErrorText(m[i].text) => HasNoRef(m[i])

\* Case of C33: a thread holds an image message and a video message of two
\* requests, and after them the inherited messages of a clone and of the
\* clone of that clone.
C33_Witness ==
    \E s \in DOMAIN store, t \in Tids :
        LET m == ThreadAt(store, s, t).messages
        IN  /\ Len(m) = 6
            /\ \E i \in 1..4, j \in 1..4 :
                  /\ m[i].req # 0 /\ m[i].imageUrl # NoUrl
                  /\ m[j].req # 0 /\ m[j].videoUrl # NoUrl
            /\ m[5].id = "inherited" /\ m[6].id = "inherited"
            /\ ~HasNoRef(m[6])


\* A request that has passed validation and has not returned.
InFlight(r) == pc[r] \notin {"idle", "done"}

\* C34: a step of a request in flight whose thread has been deleted since
\* the request started does not write to the store under that thread id:
\* the id is absent after the step as it was before it.
C34_DeletionIsFinal ==
    [][\A r \in Reqs :
          /\ InFlight(r) /\ StepOf(r)
          /\ ThreadAt(store, req[r].sid, req[r].threadId) = Absent
          => ThreadAt(store', req[r].sid, req[r].threadId) = Absent]_vars

\* What the code does: the steps of such a request before its last leave
\* the id absent, and its last step (unless it is the failed normalization
\* of an upload, which writes nothing) registers a new thread under the id
\* that holds nothing but the late assistant message (and, for an image,
\* the artifact).
C34_LastStepRecreates ==
    [][\A r \in Reqs :
          /\ InFlight(r) /\ StepOf(r)
          /\ ThreadAt(store, req[r].sid, req[r].threadId) = Absent
          => LET th == ThreadAt(store', req[r].sid, req[r].threadId)
             IN  IF pc'[r] = "done" /\ pc[r] # "upload"
                 THEN /\ th # Absent
                      /\ Len(th.messages) = 1
                      /\ th.messages[1].req = r
                      /\ th.messages[1].role = "assistant"
                      /\ th.lastImage # NoBuf <=> HasImageRef(th.messages[1])
                 ELSE th = Absent]_vars


\* C35: a cloneThread call that registers the clone under an id that is
\* free changes the session only by adding that thread: every other thread
\* id of the session, the source's included, holds after the call what it
\* held before it (an absent id stays absent), and when the source id does
\* not exist the clone is an empty thread.
C35_CloneAddsOnlyTheClone ==
    [][\A s \in DOMAIN store, source \in Tids, id \in Tids :
          /\ CloneThread(s, source, id)
          /\ id # source
          /\ ThreadAt(store, s, id) = Absent
          => /\ \A t \in Tids \ {id} : ThreadAt(store', s, t) = ThreadAt(store, s, t)
             /\ ThreadAt(store, s, source) = Absent => ThreadAt(store', s, id) = EmptyThread
             /\ ThreadAt(store', s, id) # Absent]_vars

\* What the code does: the same when the source exists; a source id that
\* does not exist is registered as an empty thread by the call.
C35_CloneRegistersMissingSource ==
    [][\A s \in DOMAIN store, source \in Tids, id \in Tids :
          /\ CloneThread(s, source, id)
          /\ id # source
          /\ ThreadAt(store, s, id) = Absent
          => /\ \A t \in Tids \ {id, source} : ThreadAt(store', s, t) = ThreadAt(store, s, t)
             /\ ThreadAt(store', s, source) = GotThread(s, source)
             /\ ThreadAt(store, s, source) = Absent => ThreadAt(store', s, id) = EmptyThread
             /\ ThreadAt(store', s, id) # Absent]_vars


\* The messages of session s that carry the reference of a generation (not
\* an inherited message), wherever they or their copies are.
GenerationMessages(s) ==
    UNION {{ThreadAt(store, s, t).messages[i] : i \in 1..Len(ThreadAt(store, s, t).messages)} :
           t \in Tids} \ {m \in UNION {{ThreadAt(store, s, t).messages[i] :
                                              i \in 1..Len(ThreadAt(store, s, t).messages)} :
                                          t \in Tids} : HasNoRef(m) \/ m.req = 0}

\* C36: in every state, within a session the messages of two distinct
\* generations carry different locators, and the file a generation's
\* message names holds the bytes of that generation.
C36_LocatorsAreUnique ==
    \A s \in DOMAIN store :
        /\ \A m1 \in GenerationMessages(s), m2 \in GenerationMessages(s) :
               m1.req # m2.req => LocatorOf(m1) # LocatorOf(m2)
        /\ \A m \in GenerationMessages(s) :
               files[LocatorOf(m)].origin = <<"gen", m.req>>

\* What the code guarantees: the locator of a generation lies in the
\* session's directory, has the extension of its kind, names a written
\* file, and is shared by two generations only when they are of the same
\* kind and read the same value of the clock.
C36_LocatorsAreUniquePerClockValue ==
    \A s \in DOMAIN store :
        /\ \A m1 \in GenerationMessages(s), m2 \in GenerationMessages(s) :
               m1.req # m2.req /\ LocatorOf(m1) = LocatorOf(m2) =>
                   /\ HasImageRef(m1) <=> HasImageRef(m2)
                   /\ LocatorOf(m1).t = LocatorOf(m2).t
        /\ \A m \in GenerationMessages(s) :
               /\ LocatorOf(m).sid = s
               /\ LocatorOf(m).ext = (IF HasImageRef(m) THEN "png" ELSE "mp4")
               /\ files[LocatorOf(m)] # NoImg
               /\ \E r \in Reqs : files[LocatorOf(m)].origin = <<"gen", r>>


\* The positions of the log m that hold the image message of a generation
\* (an image reference on a message that is not an inherited one).
ImageMessages(m) == {i \in 1..Len(m) : HasImageRef(m[i]) /\ m[i].id # "inherited"}

\* C37: in every state, a thread whose log holds the image message of a
\* generation (appended there or copied from the source of a clone) has as
\* lastImage the canonical image made from the output of the generation of
\* the last such message, with the MIME type image/png; a thread without
\* such a message has no lastImage.
C37_ArtifactIsOfLastImageMessage ==
    \A s \in DOMAIN store, t \in Tids :
        LET th == ThreadAt(store, s, t)
            idx == ImageMessages(th.messages)
        IN  IF idx = {} THEN th.lastImage = NoBuf
            ELSE LET last == th.messages[CHOOSE i \in idx : \A j \in idx : j <= i]
                 IN  /\ th.lastImage # NoBuf
                     /\ IsNormalized(th.lastImage, [origin |-> <<"gen", last.req>>])
                     /\ th.lastImageMime = "image/png"

\* Case of C37: two image requests have overlapped on one thread, the second
\* has recorded its image first and the first one last; the thread keeps the
\* image of the first.
C37_Witness ==
    /\ client = "overlap"
    /\ pc[1] = "done" /\ pc[2] = "done"
    /\ LET th == ThreadAt(store, "sA", req[1].threadId)
       IN  /\ Len(th.messages) = 4
           /\ th.messages[3].req = 2 /\ HasImageRef(th.messages[3])
           /\ th.messages[4].req = 1 /\ HasImageRef(th.messages[4])
           /\ th.lastImage.img.origin = <<"gen", 1>>


\* C38: a createThread call with an id that names a thread leaves that
\* thread (log, lastImage, MIME type) as it is, and a cloneThread call
\* leaves every thread that existed before the call as it was, also when
\* the id of the clone names an existing thread or is the source id.
C38_CreationNeverDestroys ==
    [][\A s \in DOMAIN store :
          /\ \A id \in Tids :
                CreateThread(s, id) /\ ThreadAt(store, s, id) # Absent =>
                    ThreadAt(store', s, id) = ThreadAt(store, s, id)
          /\ \A source \in Tids, id \in Tids :
                CloneThread(s, source, id) =>
                    \A t \in Tids :
                        ThreadAt(store, s, t) # Absent =>
                            ThreadAt(store', s, t) = ThreadAt(store, s, t)]_vars

\* What the code guarantees: createThread keeps an existing thread, and
\* cloneThread keeps every existing thread but the one registered under the
\* id of the clone, which it replaces by the clone.
C38_OnlyCloneTargetReplaced ==
    [][\A s \in DOMAIN store :
          /\ \A id \in Tids :
                CreateThread(s, id) /\ ThreadAt(store, s, id) # Absent =>
                    ThreadAt(store', s, id) = ThreadAt(store, s, id)
          /\ \A source \in Tids, id \in Tids :
                CloneThread(s, source, id) =>
                    /\ \A t \in Tids \ {id} :
                          ThreadAt(store, s, t) # Absent =>
                              ThreadAt(store', s, t) = ThreadAt(store, s, t)
                    /\ ThreadAt(store', s, id) = clonedThreadState(GotThread(s, source))]_vars


\* C39: in every state both endpoints of every edge are nodes of the flow
\* list, and a fork that is answered adds its node with its parent in the
\* flow list and the edge from that parent to it, also when nodes were
\* deleted while the fork awaited the server's answer.
C39_EdgesConnectNodes ==
    /\ [](\A i \in DOMAIN edges : edges[i].from \in Nodes /\ edges[i].to \in Nodes)
    /\ [][\A k \in Forks :
            ForkAnswered(k) =>
                /\ forks[k].sourceId \in Nodes
                /\ \E i \in DOMAIN edges' :
                      edges'[i] = [from |-> forks[k].sourceId, to |-> ForkId(k)]]_vars

\* What the code guarantees: the target of every edge is a node, a delete
\* leaves no edge at the deleted node, and the source of an edge that is
\* not a node was deleted while the fork that added the edge awaited its
\* answer.
C39_EdgeTargetsAreNodes ==
    /\ [](\A i \in DOMAIN edges : edges[i].to \in Nodes)
    /\ [][/\ \A id \in Nodes :
              DeleteClicked(id) =>
                  \A i \in DOMAIN edges' : edges'[i].from # id /\ edges'[i].to # id
          /\ \A i \in DOMAIN edges' :
              edges'[i].from \notin {flows'[j] : j \in DOMAIN flows'} =>
                  \/ \E j \in DOMAIN edges : edges[j] = edges'[i]
                  \/ \E k \in Forks :
                        /\ ForkAnswered(k)
                        /\ forks[k].sourceId \notin Nodes
                        /\ edges'[i].from = forks[k].sourceId]_vars

====
